---- MODULE Spec2Model ----
(***************************************************************************)
(* Model of the MCP orchestrator: the protocol-adaptive client             *)
(* (mcp_client_universal.py), the Gemini orchestration engine              *)
(* (src/orchestrators/gemini_orchestrator.py) in its synchronous and       *)
(* streaming modes, and the streaming endpoint of main_refactored.py.      *)
(***************************************************************************)
EXTENDS Naturals, Sequences, FiniteSets, TLC

(* ------------------------------ bounds -------------------------------- *)

\* Longest list of steps the planning oracle returns.
MaxSteps == 2

\* Number of operations applied to one client in ClientSpec.
MaxOps == 2

\* Number of API requests in StoreSpec.
MaxRequests == 3

\* Number of calls on one client in LifecycleSpec.
MaxCalls == 3

(* ------------------------- protocol and URLs -------------------------- *)

HTTP_JSONRPC == "http_jsonrpc"
SSE == "sse"
WEBSOCKET == "websocket"
STDIO == "stdio"
UNKNOWN == "unknown"

MCPProtocol == {HTTP_JSONRPC, SSE, WEBSOCKET, STDIO, UNKNOWN}

\* A URL is scheme + host + path; "context7" is the host the code looks for.
Url(scheme, host, path) == [scheme |-> scheme, host |-> host, path |-> path]

\* The base URLs handed to a client.
BaseUrls ==
    { Url("http", "srv", ""), Url("http", "srv", "/"), Url("http", "context7", ""),
      Url("ws", "srv", ""), Url("stdio", "proc", ""), Url("ftp", "srv", "") }

\* str.rstrip("/")
Rstrip(u) == IF u.path = "/" THEN [u EXCEPT !.path = ""] ELSE u

\* f"{base}{suffix}"
AppendPath(u, suffix) == [u EXCEPT !.path = u.path \o suffix]

\* "context7" in url.lower()
HasContext7(u) == u.host = "context7"

ENDPOINT_PATTERNS ==
    << "/mcp", "/sse", "/api", "/jsonrpc", "/rpc", "/.well-known/mcp",
       "/v1/mcp", "/mcp/v1", "" >>

TEST_METHODS == << "initialize", "ping", "capabilities", "tools/list", "resources/list" >>

Range(s) == { s[i] : i \in 1..Len(s) }

(* How a server answers the detection probes: for each candidate path the   *)
(* set of probe methods answered 200/201 with a JSON-RPC body, what becomes *)
(* of every other POST, and whether a GET is answered 200 with an event     *)
(* stream.                                                                  *)
FailureKinds == {"non200", "undecodable", "nokeys", "exception", "timeout"}

Silent == [json |-> {}, sse |-> FALSE, fail |-> "non200"]
AnswersJson == [json |-> Range(TEST_METHODS), sse |-> FALSE, fail |-> "non200"]
AnswersListOnly == [json |-> {"tools/list"}, sse |-> FALSE, fail |-> "exception"]
AnswersSse == [json |-> {}, sse |-> TRUE, fail |-> "undecodable"]

NoServer == [p \in Range(ENDPOINT_PATTERNS) |-> Silent]

\* The servers clients connect to; DetectBehaviours has the wider set.
ProbeBehaviours ==
    { NoServer,
      [NoServer EXCEPT !["/mcp"] = AnswersJson],
      [NoServer EXCEPT !["/sse"] = AnswersSse],
      [NoServer EXCEPT !["/rpc"] = AnswersListOnly, ![""] = AnswersSse] }

\* What one JSON-RPC probe comes to: the POST of method at the candidate path.
ProbeOutcome(srv, pattern, method) ==
    IF method \in srv[pattern].json THEN "ok" ELSE srv[pattern].fail

Probe(pattern, method) == [path |-> pattern, method |-> method]

(* MCPEndpointDetector._try_jsonrpc from method i on: the protocol found   *)
(* and the probes sent.  A status other than 200/201, a body that does not *)
(* decode or lacks the keys, an exception and a timeout all move on to the *)
(* next method.                                                            *)
RECURSIVE TryJsonrpc(_, _, _)
TryJsonrpc(srv, pattern, i) ==
    IF i > Len(TEST_METHODS) THEN [protocol |-> UNKNOWN, probes |-> << >>]
    ELSE LET sent == << Probe(pattern, TEST_METHODS[i]) >>
             outcome == ProbeOutcome(srv, pattern, TEST_METHODS[i])
         IN  CASE outcome = "ok" -> [protocol |-> HTTP_JSONRPC, probes |-> sent]
               [] outcome \in {"non200", "undecodable", "nokeys"} ->
                    LET rest == TryJsonrpc(srv, pattern, i + 1)
                    IN  [rest EXCEPT !.probes = sent \o @]
               [] OTHER ->   \* the except clause: continue
                    LET rest == TryJsonrpc(srv, pattern, i + 1)
                    IN  [rest EXCEPT !.probes = sent \o @]

\* MCPEndpointDetector._try_sse: one GET
TrySse(srv, pattern) ==
    [protocol |-> IF srv[pattern].sse THEN SSE ELSE UNKNOWN,
     probes |-> << Probe(pattern, "GET") >>]

\* Mutant of DetectFrom: without a match the stripped base URL is returned.
RECURSIVE DetectFromStripsBase(_, _, _, _)
DetectFromStripsBase(base, srv, k, probes) ==
    IF k > Len(ENDPOINT_PATTERNS)
    THEN [protocol |-> UNKNOWN, endpoint |-> Rstrip(base), probes |-> probes]
    ELSE LET pattern == ENDPOINT_PATTERNS[k]
             full == AppendPath(Rstrip(base), pattern)
             j == TryJsonrpc(srv, pattern, 1)
             e == TrySse(srv, pattern)
         IN  IF j.protocol # UNKNOWN
             THEN [protocol |-> j.protocol, endpoint |-> full, probes |-> probes \o j.probes]
             ELSE IF e.protocol # UNKNOWN
                  THEN [protocol |-> e.protocol, endpoint |-> full,
                        probes |-> probes \o j.probes \o e.probes]
                  ELSE DetectFromStripsBase(base, srv, k + 1, probes \o j.probes \o e.probes)

\* Mutant of DetectFrom: the event-stream probe is tried before JSON-RPC.
RECURSIVE DetectFromSseFirst(_, _, _, _)
DetectFromSseFirst(base, srv, k, probes) ==
    IF k > Len(ENDPOINT_PATTERNS)
    THEN [protocol |-> UNKNOWN, endpoint |-> base, probes |-> probes]
    ELSE LET pattern == ENDPOINT_PATTERNS[k]
             full == AppendPath(Rstrip(base), pattern)
             j == TryJsonrpc(srv, pattern, 1)
             e == TrySse(srv, pattern)
         IN  IF e.protocol # UNKNOWN
             THEN [protocol |-> e.protocol, endpoint |-> full, probes |-> probes \o e.probes]
             ELSE IF j.protocol # UNKNOWN
                  THEN [protocol |-> j.protocol, endpoint |-> full,
                        probes |-> probes \o e.probes \o j.probes]
                  ELSE DetectFromSseFirst(base, srv, k + 1, probes \o e.probes \o j.probes)

\* The loop of detect_protocol over ENDPOINT_PATTERNS, from pattern k on.
RECURSIVE DetectFrom(_, _, _, _)
DetectFrom(base, srv, k, probes) ==
    IF k > Len(ENDPOINT_PATTERNS)
    THEN [protocol |-> UNKNOWN, endpoint |-> base, probes |-> probes]
    ELSE LET pattern == ENDPOINT_PATTERNS[k]
             full == AppendPath(Rstrip(base), pattern)
             j == TryJsonrpc(srv, pattern, 1)
             e == TrySse(srv, pattern)
         IN  IF j.protocol # UNKNOWN
             THEN [protocol |-> j.protocol, endpoint |-> full, probes |-> probes \o j.probes]
             ELSE IF e.protocol # UNKNOWN
                  THEN [protocol |-> e.protocol, endpoint |-> full,
                        probes |-> probes \o j.probes \o e.probes]
                  ELSE DetectFrom(base, srv, k + 1, probes \o j.probes \o e.probes)

\* Mutant of DetectProtocol: only "ws://" is taken for a websocket URL.
DetectProtocolWsOnly(base, srv) ==
    IF base.scheme = "stdio" THEN [protocol |-> STDIO, endpoint |-> base, probes |-> << >>]
    ELSE IF base.scheme = "ws"
    THEN [protocol |-> WEBSOCKET, endpoint |-> base, probes |-> << >>]
    ELSE IF base.scheme \in {"http", "https"} THEN DetectFrom(base, srv, 1, << >>)
    ELSE [protocol |-> UNKNOWN, endpoint |-> base, probes |-> << >>]

\* MCPEndpointDetector.detect_protocol
DetectProtocol(base, srv) ==
    IF base.scheme = "stdio" THEN [protocol |-> STDIO, endpoint |-> base, probes |-> << >>]
    ELSE IF base.scheme \in {"ws", "wss"}
    THEN [protocol |-> WEBSOCKET, endpoint |-> base, probes |-> << >>]
    ELSE IF base.scheme \in {"http", "https"} THEN DetectFrom(base, srv, 1, << >>)
    ELSE [protocol |-> UNKNOWN, endpoint |-> base, probes |-> << >>]

(* ------------------------- transport replies -------------------------- *)

\* Tool names; the words the synchronous shortcut looks for are in them.
RESOLVE_TOOL == "resolve-library-id"
DOCS_TOOL == "get-library-docs"
ECHO_TOOL == "echo"
NoTool == "None"

\* The hardcoded Context7 catalog of _list_tools.
Context7Tools == << RESOLVE_TOOL, DOCS_TOOL >>

\* The tool lists a server may report.
Catalogs == { << >>, << ECHO_TOOL >>, Context7Tools }

ResourceLists == { << >>, << "r1" >> }

EmptyInfo == [shape |-> "dict", caps |-> {}]

(* What the transport hands back for one request: kind "none" is None (a   *)
(* non-200 status, an exception inside the transport, a timeout);          *)
(* otherwise a JSON object carrying "result", "error" or neither key.      *)
(* shape tells a JSON object from a scalar (null, a number) under result.  *)
InitReplies ==
    { [kind |-> "none", info |-> EmptyInfo],
      [kind |-> "error", info |-> EmptyInfo],
      [kind |-> "result", info |-> [shape |-> "scalar", caps |-> {}]] }
    \cup { [kind |-> "result", info |-> [shape |-> "dict", caps |-> cs]] :
             cs \in { {}, {"tools"}, {"tools", "resources"} } }

ToolsReplies ==
    { [kind |-> "none", shape |-> "dict", items |-> << >>],
      [kind |-> "error", shape |-> "dict", items |-> << >>],
      [kind |-> "result", shape |-> "scalar", items |-> << >>] }
    \cup { [kind |-> "result", shape |-> "dict", items |-> cat] : cat \in Catalogs }

ResourcesReplies ==
    { [kind |-> "none", shape |-> "dict", items |-> << >>] }
    \cup { [kind |-> "result", shape |-> "dict", items |-> rs] : rs \in ResourceLists }

CallReplies ==
    { [kind |-> "none", shape |-> "dict"],
      [kind |-> "error", shape |-> "dict"],
      [kind |-> "neither", shape |-> "dict"],
      [kind |-> "result", shape |-> "dict"],
      [kind |-> "result", shape |-> "scalar"] }

(* ------------------------- UniversalMCPClient ------------------------- *)

(* UniversalMCPClient.__init__.  session, ws and process say whether the   *)
(* attribute holds an open handle; unclosed_ws counts the websockets that  *)
(* connect() opened and that self.ws no longer refers to.                  *)
NewClient(url) ==
    [ base_url |-> Rstrip(url), protocol |-> UNKNOWN, endpoint |-> url,
      session |-> FALSE, ws |-> FALSE, process |-> FALSE, unclosed_ws |-> 0,
      initialized |-> FALSE,
      server_info |-> EmptyInfo, tools |-> << >>, resources |-> << >> ]

\* _send_request, were _send_stdio to hand the request to a process.
SendRequestStdioAnswers(c, reply, silent) ==
    CASE c.protocol \in {HTTP_JSONRPC, SSE} ->
           IF c.session THEN [sent |-> TRUE, resp |-> reply]
           ELSE [sent |-> FALSE, resp |-> silent]
      [] c.protocol = WEBSOCKET ->
           IF c.ws THEN [sent |-> TRUE, resp |-> reply]
           ELSE [sent |-> FALSE, resp |-> silent]
      [] c.protocol = STDIO -> [sent |-> TRUE, resp |-> reply]
      [] OTHER -> [sent |-> FALSE, resp |-> silent]

(* UniversalMCPClient._send_request with the _send_* it dispatches to:     *)
(* whether the request went out on a transport, and the response (kind     *)
(* "none" is None).  A missing session or websocket raises inside the      *)
(* _send_* method, which catches it and returns None.                      *)
SendRequest(c, reply, silent) ==
    CASE c.protocol \in {HTTP_JSONRPC, SSE} ->
           IF c.session THEN [sent |-> TRUE, resp |-> reply]
           ELSE [sent |-> FALSE, resp |-> silent]
      [] c.protocol = WEBSOCKET ->
           IF c.ws THEN [sent |-> TRUE, resp |-> reply]
           ELSE [sent |-> FALSE, resp |-> silent]
      [] OTHER -> [sent |-> FALSE, resp |-> silent]

Sent(s, method, tool) == IF s.sent THEN << [method |-> method, tool |-> tool] >> ELSE << >>

\* UniversalMCPClient._list_tools
ListTools(c, reply) ==
    LET s == SendRequest(c, reply, [kind |-> "none", shape |-> "dict", items |-> << >>])
        tools == IF s.resp.kind = "result"
                 THEN (IF s.resp.shape = "dict" THEN s.resp.items ELSE c.tools)
                 ELSE IF c.tools = << >> /\ HasContext7(c.endpoint)
                      THEN Context7Tools
                      ELSE c.tools
    IN  [client |-> [c EXCEPT !.tools = tools], sent |-> Sent(s, "tools/list", NoTool)]

\* UniversalMCPClient._list_resources
ListResources(c, reply) ==
    LET s == SendRequest(c, reply, [kind |-> "none", shape |-> "dict", items |-> << >>])
        resources == IF s.resp.kind = "result" /\ s.resp.shape = "dict"
                     THEN s.resp.items
                     ELSE c.resources
    IN  [client |-> [c EXCEPT !.resources = resources],
         sent |-> Sent(s, "resources/list", NoTool)]

\* initialize, were a failed handshake to clear the flag.
InitializeResetsOnFailure(c, rInit, rTools, rRes) ==
    LET s == SendRequest(c, rInit, [kind |-> "none", info |-> EmptyInfo])
        w0 == Sent(s, "initialize", NoTool)
    IN  IF s.resp.kind = "result"
        THEN LET c1 == [c EXCEPT !.server_info = s.resp.info, !.initialized = TRUE]
             IN  IF s.resp.info.shape = "scalar"
                 THEN [client |-> c1, ret |-> FALSE, sent |-> w0]
                 ELSE LET t == IF "tools" \in c1.server_info.caps
                               THEN ListTools(c1, rTools)
                               ELSE [client |-> c1, sent |-> << >>]
                          r == IF "resources" \in c1.server_info.caps
                               THEN ListResources(t.client, rRes)
                               ELSE [client |-> t.client, sent |-> << >>]
                      IN  [client |-> r.client, ret |-> TRUE,
                           sent |-> w0 \o t.sent \o r.sent]
        ELSE IF c.protocol = SSE
             THEN LET t == ListTools([c EXCEPT !.initialized = TRUE], rTools)
                  IN  [client |-> t.client, ret |-> TRUE, sent |-> w0 \o t.sent]
             ELSE [client |-> [c EXCEPT !.initialized = FALSE], ret |-> FALSE, sent |-> w0]

\* initialize, without the fallback for SSE servers.
InitializeWithoutFallback(c, rInit, rTools, rRes) ==
    LET s == SendRequest(c, rInit, [kind |-> "none", info |-> EmptyInfo])
        w0 == Sent(s, "initialize", NoTool)
    IN  IF s.resp.kind = "result"
        THEN LET c1 == [c EXCEPT !.server_info = s.resp.info, !.initialized = TRUE]
             IN  IF s.resp.info.shape = "scalar"
                 THEN [client |-> c1, ret |-> FALSE, sent |-> w0]
                 ELSE LET t == IF "tools" \in c1.server_info.caps
                               THEN ListTools(c1, rTools)
                               ELSE [client |-> c1, sent |-> << >>]
                          r == IF "resources" \in c1.server_info.caps
                               THEN ListResources(t.client, rRes)
                               ELSE [client |-> t.client, sent |-> << >>]
                      IN  [client |-> r.client, ret |-> TRUE,
                           sent |-> w0 \o t.sent \o r.sent]
        ELSE [client |-> c, ret |-> FALSE, sent |-> w0]

\* UniversalMCPClient.initialize
Initialize(c, rInit, rTools, rRes) ==
    LET s == SendRequest(c, rInit, [kind |-> "none", info |-> EmptyInfo])
        w0 == Sent(s, "initialize", NoTool)
    IN  IF s.resp.kind = "result"
        THEN LET c1 == [c EXCEPT !.server_info = s.resp.info, !.initialized = TRUE]
             IN  IF s.resp.info.shape = "scalar"
                 THEN \* "capabilities" in self.server_info raises; caught, False
                      [client |-> c1, ret |-> FALSE, sent |-> w0]
                 ELSE LET t == IF "tools" \in c1.server_info.caps
                               THEN ListTools(c1, rTools)
                               ELSE [client |-> c1, sent |-> << >>]
                          r == IF "resources" \in c1.server_info.caps
                               THEN ListResources(t.client, rRes)
                               ELSE [client |-> t.client, sent |-> << >>]
                      IN  [client |-> r.client, ret |-> TRUE,
                           sent |-> w0 \o t.sent \o r.sent]
        ELSE IF c.protocol = SSE
             THEN LET t == ListTools([c EXCEPT !.initialized = TRUE], rTools)
                  IN  [client |-> t.client, ret |-> TRUE, sent |-> w0 \o t.sent]
             ELSE [client |-> c, ret |-> FALSE, sent |-> w0]

\* UniversalMCPClient.connect
Connect(c, srv, wsOk, rInit, rTools, rRes) ==
    LET d == DetectProtocol(c.base_url, srv)
        c1 == IF d.protocol = UNKNOWN
              THEN IF HasContext7(c.base_url)
                   THEN [c EXCEPT !.protocol = SSE,
                                  !.endpoint = AppendPath(c.base_url, "/sse")]
                   ELSE [c EXCEPT !.protocol = HTTP_JSONRPC,
                                  !.endpoint = AppendPath(c.base_url, "/mcp")]
              ELSE [c EXCEPT !.protocol = d.protocol, !.endpoint = d.endpoint]
    IN  CASE c1.protocol \in {HTTP_JSONRPC, SSE} ->
               Initialize([c1 EXCEPT !.session = TRUE], rInit, rTools, rRes)
          [] c1.protocol = WEBSOCKET ->
               IF wsOk
               THEN \* self.ws = await websockets.connect(...): the websocket
                    \* self.ws held before is dropped without being closed
                    Initialize([c1 EXCEPT !.ws = TRUE,
                                          !.unclosed_ws = IF c.ws THEN @ + 1 ELSE @],
                               rInit, rTools, rRes)
               ELSE [client |-> c1, ret |-> FALSE, sent |-> << >>]
          [] OTHER -> [client |-> c1, ret |-> TRUE, sent |-> << >>]

(* What invoke_tool returns: the result payload (a JSON object or a        *)
(* scalar), {"error": <server error>}, {"error": "No response from         *)
(* server"}, or the response itself when it has neither key.               *)
PAYLOAD == "payload"
SCALAR == "scalar"
SERVER_ERROR == "error:server"
NO_RESPONSE == "error:No response from server"
RAW_RESPONSE == "response"
\* {"error": str(e)}
EXCEPTION_ERROR == "error:exception"
\* no value: an exception leaves the call
RAISED == "raised"

\* invoke_tool, were its body not inside try/except.
InvokeToolUnguarded(c, tool, reply) ==
    LET s == SendRequest(c, reply, [kind |-> "none", shape |-> "dict"])
        ret == CASE s.resp.kind = "result" ->
                      (IF s.resp.shape = "dict" THEN PAYLOAD ELSE SCALAR)
                 [] s.resp.kind = "error" -> SERVER_ERROR
                 [] s.resp.kind = "neither" -> RAW_RESPONSE
                 [] s.resp.kind = "not_a_mapping" -> RAISED
                 [] OTHER -> NO_RESPONSE
    IN  [ret |-> ret, sent |-> Sent(s, "tools/call", tool)]

(* UniversalMCPClient.invoke_tool.  '"result" in response' raises for a    *)
(* response that is no mapping or list (a JSON number); the except branch  *)
(* returns {"error": str(e)}.                                              *)
InvokeTool(c, tool, reply) ==
    LET s == SendRequest(c, reply, [kind |-> "none", shape |-> "dict"])
        ret == CASE s.resp.kind = "result" ->
                      (IF s.resp.shape = "dict" THEN PAYLOAD ELSE SCALAR)
                 [] s.resp.kind = "error" -> SERVER_ERROR
                 [] s.resp.kind = "neither" -> RAW_RESPONSE
                 [] s.resp.kind = "not_a_mapping" -> EXCEPTION_ERROR
                 [] OTHER -> NO_RESPONSE
    IN  [ret |-> ret, sent |-> Sent(s, "tools/call", tool)]

\* "error" in result, for a result that is a mapping
HasErrorKey(ret) == ret \in {SERVER_ERROR, NO_RESPONSE, EXCEPTION_ERROR}

\* UniversalMCPClient.get_capabilities
GetCapabilities(c) ==
    [ protocol |-> c.protocol, endpoint |-> c.endpoint, initialized |-> c.initialized,
      server_info |-> c.server_info, tools |-> c.tools, resources |-> c.resources ]

\* close, were it to forget what connect() resolved.
CloseForgetsEndpoint(c) ==
    [c EXCEPT !.session = FALSE, !.ws = FALSE, !.process = FALSE, !.initialized = FALSE,
              !.protocol = UNKNOWN, !.endpoint = c.base_url]

\* UniversalMCPClient.close
Close(c) ==
    [c EXCEPT !.session = FALSE, !.ws = FALSE, !.process = FALSE, !.initialized = FALSE]

(* ---------------------- discovery/capabilities.py --------------------- *)

EXECUTE_TOOL == "execute"

\* _get_context7_default_tools
Context7DefaultTools == << RESOLVE_TOOL, DOCS_TOOL >>

\* The URLs _discover_http_capabilities posts to, after the endpoint.
DISCOVERY_ENDPOINTS == << "/mcp", "/.well-known/mcp", "/capabilities", "/api/tools" >>

(* What one discovery POST meets: an exception (refused, timed out, a body *)
(* that is not JSON), a status other than 200, or a 200 with a JSON object *)
(* that has no "result", or a "result" holding the tool list under         *)
(* "tools", under "capabilities", or nowhere.                              *)
DiscoveryReplies ==
    { [kind |-> k, at |-> "none", tools |-> << >>] :
        k \in {"exception", "status", "noresult", "result"} }
    \cup { [kind |-> "result", at |-> "tools", tools |-> t] : t \in Catalogs }
    \cup { [kind |-> "result", at |-> "capabilities", tools |-> << ECHO_TOOL >>] }

\* The tool list a discovery response carries.
Carried(r) == IF r.kind = "result" /\ r.at # "none" THEN r.tools ELSE << >>

(* _try_json_rpc_discovery: capabilities["tools"] after the POST.  An      *)
(* exception leaves it as it was (the caller catches it and goes on).      *)
TryJsonRpcDiscovery(endpoint, tools, r) ==
    IF r.kind \in {"exception", "status"} THEN tools
    ELSE LET found == IF r.kind = "result" /\ r.at # "none" THEN r.tools ELSE tools
         IN  IF HasContext7(endpoint) \/ found = << >>
             THEN Context7DefaultTools
             ELSE found

\* The loop of _discover_http_capabilities from the i-th discovery URL on.
RECURSIVE DiscoverHttpFrom(_, _, _, _)
DiscoverHttpFrom(endpoint, tools, replies, i) ==
    IF i > Len(DISCOVERY_ENDPOINTS) THEN [tools |-> tools, posts |-> i - 1]
    ELSE LET found == TryJsonRpcDiscovery(endpoint, tools, replies[i])
         IN  IF found # << >> THEN [tools |-> found, posts |-> i]
             ELSE DiscoverHttpFrom(endpoint, found, replies, i + 1)

\* _discover_http_capabilities
DiscoverHttpCapabilities(endpoint, tools, replies) ==
    DiscoverHttpFrom(endpoint, tools, replies, 1)

(* ----------------------- the SSE transport ---------------------------- *)

\* Longest stream of lines the streaming POST is answered with.
MaxLines == 2

(* The text of an endpoint, cut into pieces so that "/sse" occurs in the   *)
(* text exactly where a piece is "/sse": scheme, host (two pieces, the     *)
(* first starting with the second slash of "//"), then the path.           *)
SseEndpoints ==
    { << "http:/", "/", "srv", "/sse" >>,              \* http://srv/sse
      << "http:/", "/", "srv", "/api", "/sse" >>,      \* http://srv/api/sse
      << "http:/", "/", "srv", "/sse", "/v1" >>,       \* http://srv/sse/v1
      << "http:/", "/", "srv", "/mcp" >>,              \* http://srv/mcp
      << "http:/", "/", "srv" >>,                      \* http://srv
      << "http:/", "/sse", ".srv", "/sse" >> }         \* http://sse.srv/sse

HostOf(text) == SubSeq(text, 2, 3)
PathOf(text) == SubSeq(text, 4, Len(text))

\* str.replace("/sse", "/mcp"): every occurrence, wherever it is
ReplaceSse(text) == [i \in DOMAIN text |-> IF text[i] = "/sse" THEN "/mcp" ELSE text[i]]

\* What the JSON POST meets: an exception, a status, a body.
JsonAnswers == {"raises", "non200", "200_json", "200_not_json"}

(* The lines of a streaming answer: a data line whose JSON has "result",   *)
(* one whose JSON has type "result", one with other JSON, one that is not  *)
(* JSON, "event: done", and any other line.                                *)
SseLines == {"data_result", "data_typed", "data_json", "data_text", "event_done", "other"}

SeqsUpTo(S, n) == UNION { [1..k -> S] : k \in 0..n }

\* What the streaming POST meets: an exception, or the lines of the answer.
StreamAnswers ==
    { [raises |-> TRUE, lines |-> << >>] }
    \cup { [raises |-> FALSE, lines |-> l] : l \in SeqsUpTo(SseLines, MaxLines) }

NONE == [kind |-> "None", data |-> << >>]

\* "if result_data: return {'result': result_data}", else None
Collected(collected) ==
    IF collected # << >> THEN [kind |-> "collected", data |-> collected] ELSE NONE

\* ReadStream, were "event: done" not to end the loop.
RECURSIVE ReadStreamPastDone(_, _, _)
ReadStreamPastDone(lines, i, collected) ==
    IF i > Len(lines)
    THEN [response |-> Collected(collected), read |-> Len(lines)]
    ELSE CASE lines[i] = "data_result" ->
                [response |-> [kind |-> "line", data |-> << lines[i] >>], read |-> i]
           [] lines[i] = "data_typed" ->
                [response |-> [kind |-> "content", data |-> << lines[i] >>], read |-> i]
           [] lines[i] \in {"data_json", "data_text"} ->
                ReadStreamPastDone(lines, i + 1, Append(collected, lines[i]))
           [] OTHER -> ReadStreamPastDone(lines, i + 1, collected)

(* The loop over response.content from line i on, result_data holding      *)
(* collected: the value _send_sse returns and the number of lines it has   *)
(* read.  A frame with "result" is returned as it is, of a frame with type *)
(* "result" the content is returned under "result".                        *)
RECURSIVE ReadStream(_, _, _)
ReadStream(lines, i, collected) ==
    IF i > Len(lines)
    THEN [response |-> Collected(collected), read |-> Len(lines)]
    ELSE CASE lines[i] = "data_result" ->
                [response |-> [kind |-> "line", data |-> << lines[i] >>], read |-> i]
           [] lines[i] = "data_typed" ->
                [response |-> [kind |-> "content", data |-> << lines[i] >>], read |-> i]
           [] lines[i] \in {"data_json", "data_text"} ->
                ReadStream(lines, i + 1, Append(collected, lines[i]))
           [] lines[i] = "event_done" ->
                [response |-> Collected(collected), read |-> i]
           [] OTHER -> ReadStream(lines, i + 1, collected)

Post(text, accept) == [url |-> text, accept |-> accept]

(* UniversalMCPClient._send_sse: the POSTs it makes, in order, and what it *)
(* returns.  Without a session both attempts raise before anything is      *)
(* sent.                                                                   *)
SendSse(session, endpoint, json, stream) ==
    IF ~session THEN [posts |-> << >>, response |-> NONE, read |-> 0]
    ELSE LET first == Post(ReplaceSse(endpoint), "json")
             second == Post(endpoint, "text/event-stream")
             streamed == ReadStream(stream.lines, 1, << >>)
         IN  IF json = "200_json"
             THEN [posts |-> << first >>, response |-> [kind |-> "body", data |-> << >>],
                   read |-> 0]
             ELSE IF stream.raises
             THEN [posts |-> << first, second >>, response |-> NONE, read |-> 0]
             ELSE [posts |-> << first, second >>, response |-> streamed.response,
                   read |-> streamed.read]

\* The call in the specifications that do not make it.
NoSseCall ==
    [ session |-> FALSE, endpoint |-> << >>, json |-> "raises",
      stream |-> [raises |-> TRUE, lines |-> << >>], called |-> FALSE, posts |-> << >>,
      response |-> NONE, read |-> 0 ]

(* ------------------- ServerManager and the HTTP API ------------------- *)

\* Repository URLs handed to discover and deploy, endpoints handed to register.
Repos == {"r1"}
Endpoints == {"e1"}
\* An id no request has produced.
NONEXISTENT == "nonexistent"
ServerIds == Repos \cup Endpoints \cup {NONEXISTENT}

(* ServerManager.generate_server_id: twelve hex digits of the md5 of the   *)
(* string; different strings are taken to get different ids, and an        *)
(* endpoint is never also handed in as a repository URL.                   *)
GenerateServerId(identifier) == identifier

\* The deploy methods a DeployRequest asks for.
RequestMethods == {"auto", "docker", "npx"}

\* ServerDeployer.determine_method, for a repository that holds a Dockerfile
DetermineMethod(repo) == "docker"

(* A ServerInfo object.  The store holds references to objects (indices    *)
(* into records), so a record reached through the registry and through     *)
(* the cache is one object or two.                                         *)
ServerInfo(id, method, status, endpoint) ==
    [ id |-> id, deploy_method |-> method, status |-> status, endpoint |-> endpoint,
      capabilities |-> "None", error |-> "None" ]

NoRef == 0

\* ServerManager.__init__
NewManager ==
    [ records |-> << >>,
      server_registry |-> [i \in ServerIds |-> NoRef],
      discovery_cache |-> [i \in ServerIds |-> NoRef] ]

\* ServerInfo(...): a new object
NewRecord(s, rec) == [s EXCEPT !.records = Append(@, rec)]
LastRef(s) == Len(s.records)

\* ServerManager.register_server
RegisterServer(s, ref) == [s EXCEPT !.server_registry[s.records[ref].id] = ref]

\* ServerManager.cache_discovered_server
CacheDiscoveredServer(s, ref) == [s EXCEPT !.discovery_cache[s.records[ref].id] = ref]

\* ServerManager.get_server
GetServer(s, id) ==
    IF s.server_registry[id] # NoRef THEN s.server_registry[id] ELSE s.discovery_cache[id]

\* ServerManager.is_server_deployed
IsServerDeployed(s, id) ==
    /\ s.server_registry[id] # NoRef
    /\ s.records[s.server_registry[id]].status = "deployed"

\* ServerManager.is_server_registered
IsServerRegistered(s, id) == s.server_registry[id] # NoRef

\* ServerManager.is_server_cached
IsServerCached(s, id) == s.discovery_cache[id] # NoRef

(* ServerManager.list_all_servers: the values of the registry, then those  *)
(* of the cache, keyed by id with the later one kept.                      *)
ListAllServers(s) ==
    { (IF s.discovery_cache[i] # NoRef THEN s.discovery_cache[i] ELSE s.server_registry[i]) :
        i \in { k \in ServerIds : s.server_registry[k] # NoRef \/ s.discovery_cache[k] # NoRef } }

\* ServerManager.filter_servers; "None" is no filter
FilterServers(s, status, method) ==
    { ref \in ListAllServers(s) :
        /\ status # "None" => s.records[ref].status = status
        /\ method # "None" => s.records[ref].deploy_method = method }

\* ServerManager.update_server_status
UpdateServerStatus(s, id, status, endpoint, error, capabilities) ==
    LET ref == GetServer(s, id)
    IN  IF ref = NoRef THEN s
        ELSE [s EXCEPT
               !.records[ref] =
                   [@ EXCEPT !.status = status,
                             !.endpoint = IF endpoint # "None" THEN endpoint ELSE @,
                             !.error = IF error # "None" THEN error ELSE @,
                             !.capabilities = IF capabilities # "None" THEN capabilities ELSE @],
               !.server_registry[id] = IF status = "deployed" /\ @ = NoRef THEN ref ELSE @]

\* ServerManager.clear_cache
ClearCache(s) == [s EXCEPT !.discovery_cache = [i \in ServerIds |-> NoRef]]

\* ServerManager.remove_server
RemoveServer(s, id) == [s EXCEPT !.server_registry[id] = NoRef, !.discovery_cache[id] = NoRef]

NoApiResponse ==
    [ n |-> 0, op |-> "none", id |-> NONEXISTENT, code |-> 0, ref |-> NoRef, list |-> {},
      client |-> FALSE, events |-> FALSE ]

(* --------------------------- planning oracle -------------------------- *)

INVOKE_TOOL == "invoke_tool"
ANALYZE == "analyze"
COMPLETE == "complete"
\* A step that is a JSON object without an "action" key.
NO_ACTION == "None"
\* A step that is not a JSON object (a string, a number).
NOT_A_DICT == "not-a-dict"

Step(action, tool, args) == [action |-> action, tool |-> tool, args |-> args]

(* The steps the oracle may put in a plan.  A missing "tool" key is NoTool *)
(* and a missing "args" key reads as {} (step.get("args", {})).            *)
OracleSteps ==
    { Step(INVOKE_TOOL, ECHO_TOOL, "{q}"),
      Step(INVOKE_TOOL, DOCS_TOOL, "{}"),
      Step(INVOKE_TOOL, NoTool, "{}"),
      Step(ANALYZE, NoTool, "{}"),
      Step(NO_ACTION, NoTool, "{}"),
      Step(NOT_A_DICT, NoTool, "{}") }

StepLists == UNION { [1..n -> OracleSteps] : n \in 0..MaxSteps }

(* What the generateContent call of _generate_plan_with_gemini yields: an  *)
(* exception, a status other than 200, a 200 whose text holds no usable    *)
(* JSON object, or a 200 whose text parses to a JSON object, with or       *)
(* without a "steps" key.                                                   *)
OracleReplies ==
    { [kind |-> k, hasSteps |-> FALSE, steps |-> << >>] :
        k \in {"exception", "status", "unparsable", "plan"} }
    \cup { [kind |-> "plan", hasSteps |-> TRUE, steps |-> p] : p \in StepLists }

\* The fallback plan at the end of _generate_plan_with_gemini.
FallbackPlan(tools) ==
    IF tools # << >>
    THEN [hasSteps |-> TRUE, steps |-> << Step(INVOKE_TOOL, tools[1], "{}") >>]
    ELSE [hasSteps |-> TRUE,
          steps |-> << Step(ANALYZE, NoTool, "{}"), Step(COMPLETE, NoTool, "{}") >>]

\* GeminiOrchestrator._generate_plan_with_gemini
GeneratePlan(key, tools, o) ==
    IF ~key THEN [hasSteps |-> TRUE, steps |-> << >>]
    ELSE IF o.kind = "plan" THEN [hasSteps |-> o.hasSteps, steps |-> o.steps]
    ELSE FallbackPlan(tools)

SummarizeReplies == {"ok", "exception", "status", "unparsable"}

SUMMARY_TEXT == "text"
SummaryErrors ==
    { "Gemini API key not configured", "Failed to parse Gemini response",
      "Gemini API error: status", "Error generating response" }

\* GeminiOrchestrator._get_gemini_response
GetGeminiResponse(key, s) ==
    IF ~key THEN "Gemini API key not configured"
    ELSE CASE s = "ok" -> SUMMARY_TEXT
           [] s = "unparsable" -> "Failed to parse Gemini response"
           [] s = "status" -> "Gemini API error: status"
           [] OTHER -> "Error generating response"

(* The arguments of "_get_gemini_response(prompt, plan, context)": plan is  *)
(* the mapping the oracle returned, which the loop over its steps has not  *)
(* written to.                                                             *)
SummarizeArguments(p) == [called |-> TRUE, prompt |-> "prompt", plan |-> p, context |-> "context"]

\* plan.get("steps", [])
PlanSteps(p) == IF p.hasSteps THEN p.steps ELSE << >>

(* ------------------------------- state -------------------------------- *)

VARIABLES
    mode,        \* "sync": execute_task, "stream": the streaming endpoint; "client",
                 \* "detect", "discover": the specification being run
    pc,          \* where the task is
    apiKey,      \* GeminiOrchestrator.api_key is set
    url,         \* server.endpoint
    promptDocs,  \* the prompt holds one of "docs", "documentation", "library"
    client,      \* the UniversalMCPClient of the task
    created,     \* the client has been constructed
    connected,   \* what connect() returned: "none" before it is called
    plan,        \* the plan returned by _generate_plan_with_gemini
    stepIdx,     \* index of the plan step being executed
    events,      \* the events sent to the consumer of the stream
    wire,        \* the requests that went out on the client's transport
    calls,       \* the invoke_tool calls made by the engine, with what they returned
    result,      \* what execute_task returns
    count,       \* calls of connect, close and the two oracle functions
    paired,      \* the task is run in both modes on the same inputs
    inputs,      \* the oracle replies drawn; paired: every input drawn so far
    firstEvents, \* paired: the events of the streaming run
    ops,         \* ClientSpec: operations applied to the client
    lastRet,     \* ClientSpec: the last operation and what it returned
    snapshot,    \* ClientSpec: what get_capabilities returned last and how often it
                 \* was called since an operation that writes the client's state
    awaiting,    \* the engine is suspended in "await ...invoke_tool(...)"
    inflight,    \* requests sent on the task's client that have not returned yet
    behaviour,   \* DetectSpec: how the server answers the probes
    detection,   \* DetectSpec: what detect_protocol returned, with the probes it sent
    discovery,   \* DiscoverySpec: the capabilities discover_mcp_capabilities holds
    store,       \* StoreSpec: the ServerManager singleton and the ServerInfo objects
    jobs,        \* StoreSpec: the coroutines the event loop holds
    received,    \* StoreSpec: the number of API requests received
    api,         \* StoreSpec: the last response of the API
    deleted,     \* StoreSpec: ids delete_server has removed
    sseCall,     \* SseSpec: one call of _send_sse, its inputs and what it did
    summarized   \* the arguments of the call of _get_gemini_response

vars == << mode, pc, apiKey, url, promptDocs, client, created, connected, plan, stepIdx, events,
           wire, calls, result, count, paired, inputs, firstEvents, ops, lastRet, snapshot,
           awaiting, inflight, behaviour, detection, discovery,
           store, jobs, received, api, deleted, sseCall, summarized >>

taskVars == << mode, apiKey, url, promptDocs, paired, firstEvents >>
clientSpecVars == << ops, lastRet, snapshot >>
callVars == << awaiting, inflight >>
detectVars == << behaviour, detection, discovery >>
storeVars == << store, jobs, received, api, deleted >>
sseVars == << sseCall >>
summaryVars == << summarized >>

\* The state of the store in the specifications that do not use it.
StoreUnused ==
    /\ store = NewManager
    /\ jobs = << >>
    /\ received = 0
    /\ api = NoApiResponse
    /\ deleted = {}

NoPlan == [hasSteps |-> FALSE, steps |-> << >>]
NoResult == [status |-> "none", plan |-> << >>, results |-> << >>, result |-> "none"]
NoCount == [connect |-> 0, close |-> 0, plan |-> 0, summarize |-> 0]
NoInputs == [connect |-> {}, oracle |-> {}, replies |-> << >>, summary |-> {}]
NotSummarized == [called |-> FALSE, prompt |-> "", plan |-> NoPlan, context |-> ""]
NoDetection == [protocol |-> "none", endpoint |-> Url("", "", ""), probes |-> << >>]
NoSnapshot ==
    [ calls |-> 0,
      caps |-> [ protocol |-> "none", endpoint |-> Url("", "", ""), initialized |-> FALSE,
                 server_info |-> EmptyInfo, tools |-> << >>, resources |-> << >> ] ]
(* capabilities = {"tools": [], ..., "protocol": "unknown"}; via is the    *)
(* part of discover_mcp_capabilities the tools come from and carried the   *)
(* tool list in the response they were read from.                          *)
NoDiscovery == [tools |-> << >>, protocol |-> UNKNOWN, via |-> "none", carried |-> << >>]

\* An event of the stream; the fields an event does not carry are blank.
Event(name) ==
    [ event |-> name, idx |-> 0, action |-> "", tool |-> "", args |-> "",
      success |-> FALSE, result |-> "", steps |-> << >> ]

(* The server and network as seen by one connect(): the probe behaviour,   *)
(* whether the websocket opens, the replies to initialize, tools/list and  *)
(* resources/list.  A reply to a request that connect() cannot send is not *)
(* varied: probes go to http URLs only, a websocket is opened for ws URLs  *)
(* only, resources/list follows an initialize result that advertises       *)
(* resources, tools/list one that advertises tools or a failed handshake.  *)
NoListReply == [kind |-> "none", shape |-> "dict", items |-> << >>]

Handshakes ==
    { h \in [ rInit : InitReplies, rTools : ToolsReplies, rRes : ResourcesReplies ] :
        /\ ~(h.rInit.kind = "result" /\ "resources" \in h.rInit.info.caps)
             => h.rRes = NoListReply
        /\ (h.rInit.kind = "result" /\ "tools" \notin h.rInit.info.caps)
             => h.rTools = NoListReply }

ConnectEnvs(base) ==
    { [ srv |-> s, wsOk |-> w, rInit |-> h.rInit, rTools |-> h.rTools, rRes |-> h.rRes ] :
        s \in (IF base.scheme \in {"http", "https"} THEN ProbeBehaviours ELSE {NoServer}),
        w \in (IF base.scheme \in {"ws", "wss"} THEN BOOLEAN ELSE {TRUE}),
        h \in (IF base.scheme = "stdio"
               THEN { g \in Handshakes : g.rInit.kind = "none" /\ g.rTools = NoListReply }
               ELSE Handshakes) }

(* The environments tasks are run in: a server that answers JSON-RPC at    *)
(* /mcp, one that streams at /sse, or none; a handshake that fails or      *)
(* advertises tools; any catalog.                                          *)
TaskConnectEnvs(base) ==
    { e \in ConnectEnvs(base) :
        /\ e.srv \in { NoServer, [NoServer EXCEPT !["/mcp"] = AnswersJson],
                       [NoServer EXCEPT !["/sse"] = AnswersSse] }
        /\ e.rInit.kind \in {"none", "result"}
        /\ e.rInit.info.shape = "dict" /\ e.rInit.info.caps \in { {}, {"tools"} }
        /\ e.rTools.kind \in {"none", "result"} /\ e.rTools.shape = "dict" }

ConnectIn(c, e) == Connect(c, e.srv, e.wsOk, e.rInit, e.rTools, e.rRes)

\* The server endpoints tasks are run against.
TaskUrls ==
    { Url("http", "srv", ""), Url("http", "context7", ""), Url("ws", "srv", ""),
      Url("stdio", "proc", "") }

(* Paired runs draw each input once: an input already drawn is used again. *)
Drawn(chosen, S) == IF paired /\ chosen # {} THEN chosen ELSE S
DrawnReply(k) ==
    IF paired /\ k <= Len(inputs.replies) THEN {inputs.replies[k]} ELSE CallReplies
Keep(field, x) ==
    IF paired \/ field # "connect" THEN [inputs EXCEPT ![field] = {x}] ELSE inputs
KeepReply(k, r) ==
    IF paired /\ k = Len(inputs.replies) + 1
    THEN [inputs EXCEPT !.replies = Append(@, r)]
    ELSE inputs

Call(tool, args, ret, phase) == [tool |-> tool, args |-> args, ret |-> ret, phase |-> phase]

Bump(field) == [count EXCEPT ![field] = @ + 1]

(* "await universal_client.invoke_tool(...)": the tools/call request goes  *)
(* out on the transport, if one is open, and the engine is suspended until *)
(* invoke_tool returns.                                                    *)
RequestsOf(tool) == InvokeTool(client, tool, [kind |-> "none", shape |-> "dict"]).sent

SendCall(tool) ==
    /\ ~awaiting
    /\ awaiting' = TRUE
    /\ wire' = wire \o RequestsOf(tool)
    /\ inflight' = inflight + Len(RequestsOf(tool))

\* invoke_tool returns: the response, or the transport's failure, is in
ReturnCall(tool) ==
    /\ awaiting
    /\ awaiting' = FALSE
    /\ inflight' = inflight - Len(RequestsOf(tool))

(* ------------------ streaming: orchestrate_task_stream ---------------- *)
(* One action per resumption of the generators: event_generator of         *)
(* main_refactored.py wrapping GeminiOrchestrator.execute_task_stream.     *)
(* pc names the event the consumer was handed last.                        *)

Emit(e) == events' = Append(events, e)

\* event_generator up to its first yield
StreamStart ==
    /\ mode = "stream" /\ pc = "idle"
    /\ Emit(Event("start"))
    /\ pc' = "start"
    /\ UNCHANGED << taskVars, client, created, connected, plan, stepIdx, wire, calls, result, count,
                    inputs, clientSpecVars, detectVars, storeVars, sseVars, summaryVars, callVars >>

\* StreamKeyCheck, were api_key not tested.
StreamKeyCheckSkipped ==
    /\ mode = "stream" /\ pc = "start"
    /\ Emit(Event("connecting"))
    /\ pc' = "connecting"
    /\ UNCHANGED << taskVars, client, created, connected, plan, stepIdx, wire, calls, result, count,
                    inputs, clientSpecVars, detectVars, storeVars, sseVars, summaryVars, callVars >>

\* execute_task_stream: the api_key test, then the connecting event
StreamKeyCheck ==
    /\ mode = "stream" /\ pc = "start"
    /\ IF ~apiKey
       THEN /\ Emit([Event("error") EXCEPT !.result = "GEMINI_API_KEY not configured"])
            /\ pc' = "error"
       ELSE /\ Emit(Event("connecting"))
            /\ pc' = "connecting"
    /\ UNCHANGED << taskVars, client, created, connected, plan, stepIdx, wire, calls, result, count,
                    inputs, clientSpecVars, detectVars, storeVars, sseVars, summaryVars, callVars >>

\* The connect() environments a task may meet.
ConnectChoices ==
    IF paired
    THEN { e \in TaskConnectEnvs(Rstrip(url)) :
             /\ e.srv # [NoServer EXCEPT !["/sse"] = AnswersSse]
             /\ e.rInit.kind = "result" /\ e.rInit.info.caps = {"tools"}
             /\ e.rTools.kind = "result" }
    ELSE TaskConnectEnvs(Rstrip(url))

\* Mutant of StreamConnect: the result of connect() is not tested.
StreamConnectUnchecked ==
    /\ mode = "stream" /\ pc = "connecting"
    /\ \E e \in Drawn(inputs.connect, ConnectChoices) :
         LET o == ConnectIn(NewClient(url), e)
         IN  /\ client' = o.client
             /\ wire' = wire \o o.sent
             /\ inputs' = Keep("connect", e)
             /\ connected' = (IF o.ret THEN "True" ELSE "False")
             /\ Emit(Event("discovering"))
             /\ pc' = "discovering"
    /\ created' = TRUE
    /\ count' = Bump("connect")
    /\ UNCHANGED << taskVars, plan, stepIdx, calls, result, clientSpecVars, detectVars, storeVars, sseVars, summaryVars, callVars >>

\* UniversalMCPClient(server.endpoint), connect(), then discovering or error
StreamConnect ==
    /\ mode = "stream" /\ pc = "connecting"
    /\ \E e \in Drawn(inputs.connect, ConnectChoices) :
         LET o == ConnectIn(NewClient(url), e)
         IN  /\ client' = o.client
             /\ wire' = wire \o o.sent
             /\ inputs' = Keep("connect", e)
             /\ connected' = (IF o.ret THEN "True" ELSE "False")
             /\ IF o.ret
                THEN /\ Emit(Event("discovering"))
                     /\ pc' = "discovering"
                ELSE /\ Emit([Event("error") EXCEPT !.result = "Failed to connect"])
                     /\ pc' = "error"
    /\ created' = TRUE
    /\ count' = Bump("connect")
    /\ UNCHANGED << taskVars, plan, stepIdx, calls, result, clientSpecVars, detectVars, storeVars, sseVars, summaryVars, callVars >>

\* get_capabilities(), then the capabilities event
StreamDiscover ==
    /\ mode = "stream" /\ pc = "discovering"
    /\ LET caps == GetCapabilities(client)
       IN  Emit([Event("capabilities") EXCEPT !.result = caps.protocol,
                                              !.idx = Len(caps.tools)])
    /\ pc' = "capabilities"
    /\ UNCHANGED << taskVars, client, created, connected, plan, stepIdx, wire, calls, result, count,
                    inputs, clientSpecVars, detectVars, storeVars, sseVars, summaryVars, callVars >>

\* the planning event
StreamPlanning ==
    /\ mode = "stream" /\ pc = "capabilities"
    /\ Emit(Event("planning"))
    /\ pc' = "planning"
    /\ UNCHANGED << taskVars, client, created, connected, plan, stepIdx, wire, calls, result, count,
                    inputs, clientSpecVars, detectVars, storeVars, sseVars, summaryVars, callVars >>

\* Mutant of LoopHead: step_index is the zero-based loop index.
LoopHeadZeroBased(steps, i) ==
    IF i > Len(steps)
    THEN [ev |-> Event("finalizing"), pc |-> "finalizing"]
    ELSE IF steps[i].action = NOT_A_DICT
         THEN [ev |-> [Event("error") EXCEPT !.result = "AttributeError"], pc |-> "error"]
         ELSE [ev |-> [Event("executing_step") EXCEPT !.idx = i - 1,
                                                      !.action = steps[i].action],
               pc |-> "executing_step"]

(* The head of the loop over plan["steps"] for step i: building the        *)
(* executing_step event calls step.get, which raises for a step that is    *)
(* not a mapping; past the last step comes the finalizing event.           *)
LoopHead(steps, i) ==
    IF i > Len(steps)
    THEN [ev |-> Event("finalizing"), pc |-> "finalizing"]
    ELSE IF steps[i].action = NOT_A_DICT
         THEN [ev |-> [Event("error") EXCEPT !.result = "AttributeError"], pc |-> "error"]
         ELSE [ev |-> [Event("executing_step") EXCEPT !.idx = i,
                                                      !.action = steps[i].action],
               pc |-> "executing_step"]

\* "if plan and plan.get('steps')"
HasPlan(p) == p.hasSteps /\ p.steps # << >>

\* _generate_plan_with_gemini, then plan_ready or, without steps, finalizing
StreamPlan ==
    /\ mode = "stream" /\ pc = "planning"
    /\ \E o \in Drawn(inputs.oracle, OracleReplies) :
         LET p == GeneratePlan(apiKey, GetCapabilities(client).tools, o)
         IN  /\ plan' = p
             /\ inputs' = Keep("oracle", o)
             /\ IF HasPlan(p)
                THEN /\ Emit([Event("plan_ready") EXCEPT !.steps = p.steps,
                                                         !.idx = Len(p.steps)])
                     /\ pc' = "plan_ready"
                ELSE /\ Emit(Event("finalizing"))
                     /\ pc' = "finalizing"
    /\ count' = Bump("plan")
    /\ UNCHANGED << taskVars, client, created, connected, stepIdx, wire, calls, result,
                    clientSpecVars, detectVars, storeVars, sseVars, summaryVars, callVars >>

\* the loop moves to step i
StreamToStep(i) ==
    LET h == LoopHead(plan.steps, i)
    IN  /\ Emit(h.ev)
        /\ pc' = h.pc
        /\ stepIdx' = IF h.pc = "executing_step" THEN i ELSE stepIdx
        /\ UNCHANGED << taskVars, client, created, connected, plan, wire, calls, result, count,
                        inputs, clientSpecVars, detectVars, storeVars, sseVars, summaryVars, callVars >>

\* after plan_ready: the first iteration
StreamFirstStep ==
    /\ mode = "stream" /\ pc = "plan_ready"
    /\ StreamToStep(1)

\* after executing_step: step["action"] raises for a step without the key
StreamStepRaises ==
    /\ mode = "stream" /\ pc = "executing_step"
    /\ plan.steps[stepIdx].action = NO_ACTION
    /\ Emit([Event("error") EXCEPT !.result = "KeyError"])
    /\ pc' = "error"
    /\ UNCHANGED << taskVars, client, created, connected, plan, stepIdx, wire, calls, result, count,
                    inputs, clientSpecVars, detectVars, storeVars, sseVars, summaryVars, callVars >>

\* after executing_step of a step that is not invoke_tool: the next iteration
StreamSkipStep ==
    /\ mode = "stream" /\ pc = "executing_step"
    /\ plan.steps[stepIdx].action \notin {INVOKE_TOOL, NO_ACTION}
    /\ StreamToStep(stepIdx + 1)

\* after executing_step of an invoke_tool step: the invoking_tool event
StreamInvoking ==
    /\ mode = "stream" /\ pc = "executing_step"
    /\ plan.steps[stepIdx].action = INVOKE_TOOL
    /\ Emit([Event("invoking_tool") EXCEPT !.tool = plan.steps[stepIdx].tool,
                                            !.args = plan.steps[stepIdx].args])
    /\ pc' = "invoking_tool"
    /\ UNCHANGED << taskVars, client, created, connected, plan, stepIdx, wire, calls, result, count,
                    inputs, clientSpecVars, detectVars, storeVars, sseVars, summaryVars, callVars >>

\* after invoking_tool: the call of invoke_tool, up to its await
StreamSend ==
    /\ mode = "stream" /\ pc = "invoking_tool"
    /\ SendCall(plan.steps[stepIdx].tool)
    /\ UNCHANGED << taskVars, pc, client, created, connected, plan, stepIdx, events, calls, result,
                    count, inputs, clientSpecVars, detectVars, storeVars, sseVars, summaryVars >>

\* Mutant of StreamInvoke: a failed invocation escapes to the outer handler.
StreamInvokeEscapes ==
    /\ mode = "stream" /\ pc = "invoking_tool"
    /\ ReturnCall(plan.steps[stepIdx].tool)
    /\ \E r \in DrawnReply(Len(calls) + 1) :
         LET step == plan.steps[stepIdx]
             o == InvokeTool(client, step.tool, r)
         IN  /\ calls' = Append(calls, Call(step.tool, step.args, o.ret, "plan"))
             /\ inputs' = KeepReply(Len(calls) + 1, r)
             /\ IF o.ret = SCALAR \/ HasErrorKey(o.ret)
                THEN /\ Emit([Event("error") EXCEPT !.result = "invocation failed"])
                     /\ pc' = "error"
                ELSE /\ Emit([Event("tool_result") EXCEPT !.tool = step.tool,
                                                          !.success = TRUE,
                                                          !.result = o.ret])
                     /\ pc' = "tool_result"
    /\ UNCHANGED << taskVars, client, created, connected, plan, stepIdx, wire, result, count,
                    clientSpecVars, detectVars, storeVars, sseVars, summaryVars >>

\* Mutant of StreamInvoke: the invocation is started and not awaited.
StreamInvokeNotAwaited ==
    /\ mode = "stream" /\ pc = "invoking_tool"
    /\ awaiting /\ awaiting' = FALSE
    /\ LET step == plan.steps[stepIdx]
       IN  /\ calls' = Append(calls, Call(step.tool, step.args, PAYLOAD, "plan"))
           /\ Emit([Event("tool_result") EXCEPT !.tool = step.tool, !.success = TRUE,
                                                 !.result = PAYLOAD])
    /\ pc' = "tool_result"
    /\ UNCHANGED << taskVars, client, created, connected, plan, stepIdx, wire, result, count,
                    inputs, clientSpecVars, detectVars, storeVars, sseVars, summaryVars, inflight >>

(* invoke_tool returns, then tool_result; '"error" not in result' raises for a *)
(* result that is no container, which the except turns into tool_error.    *)
StreamInvoke ==
    /\ mode = "stream" /\ pc = "invoking_tool"
    /\ ReturnCall(plan.steps[stepIdx].tool)
    /\ \E r \in DrawnReply(Len(calls) + 1) :
         LET step == plan.steps[stepIdx]
             o == InvokeTool(client, step.tool, r)
         IN  /\ calls' = Append(calls, Call(step.tool, step.args, o.ret, "plan"))
             /\ inputs' = KeepReply(Len(calls) + 1, r)
             /\ IF o.ret = SCALAR
                THEN /\ Emit([Event("tool_error") EXCEPT !.tool = step.tool,
                                                         !.result = "TypeError"])
                     /\ pc' = "tool_error"
                ELSE /\ Emit([Event("tool_result") EXCEPT !.tool = step.tool,
                                                          !.success = ~HasErrorKey(o.ret),
                                                          !.result = o.ret])
                     /\ pc' = "tool_result"
    /\ UNCHANGED << taskVars, client, created, connected, plan, stepIdx, wire, result, count,
                    clientSpecVars, detectVars, storeVars, sseVars, summaryVars >>

\* Mutant of StreamAfterTool: a failed step ends the loop with an error.
StreamAfterToolAborts ==
    /\ mode = "stream" /\ pc \in {"tool_result", "tool_error"}
    /\ LET last == events[Len(events)]
       IN  IF last.event = "tool_error" \/ ~last.success
           THEN /\ Emit([Event("error") EXCEPT !.result = "step failed"])
                /\ pc' = "error"
                /\ UNCHANGED << taskVars, client, created, connected, plan, stepIdx, wire,
                                calls, result, count, inputs, clientSpecVars, detectVars, storeVars, sseVars, summaryVars, callVars >>
           ELSE StreamToStep(stepIdx + 1)

\* after tool_result or tool_error: the next iteration
StreamAfterTool ==
    /\ mode = "stream" /\ pc \in {"tool_result", "tool_error"}
    /\ StreamToStep(stepIdx + 1)

\* Mutant of StreamFinalize: a failed summarize call raises out of the helper.
StreamFinalizeRaises ==
    /\ mode = "stream" /\ pc = "finalizing"
    /\ \E s \in Drawn(inputs.summary, SummarizeReplies) :
         /\ IF s = "ok"
            THEN /\ Emit([Event("gemini_response") EXCEPT
                            !.result = GetGeminiResponse(apiKey, s)])
                 /\ pc' = "gemini_response"
            ELSE /\ Emit([Event("error") EXCEPT !.result = "summarize failed"])
                 /\ pc' = "error"
         /\ inputs' = Keep("summary", s)
    /\ count' = Bump("summarize")
    /\ summarized' = SummarizeArguments(plan)
    /\ UNCHANGED << taskVars, client, created, connected, plan, stepIdx, wire, calls, result,
                    clientSpecVars, detectVars, storeVars, sseVars, callVars >>

\* _get_gemini_response, then the gemini_response event
StreamFinalize ==
    /\ mode = "stream" /\ pc = "finalizing"
    /\ \E s \in Drawn(inputs.summary, SummarizeReplies) :
         /\ Emit([Event("gemini_response") EXCEPT !.result = GetGeminiResponse(apiKey, s)])
         /\ inputs' = Keep("summary", s)
    /\ pc' = "gemini_response"
    /\ count' = Bump("summarize")
    /\ summarized' = SummarizeArguments(plan)
    /\ UNCHANGED << taskVars, client, created, connected, plan, stepIdx, wire, calls, result,
                    clientSpecVars, detectVars, storeVars, sseVars, callVars >>

(* after gemini_response: close(); execute_task_stream is exhausted and    *)
(* event_generator yields complete                                         *)
StreamClose ==
    /\ mode = "stream" /\ pc = "gemini_response"
    /\ client' = Close(client)
    /\ count' = Bump("close")
    /\ Emit(Event("complete"))
    /\ pc' = "complete"
    /\ UNCHANGED << taskVars, created, connected, plan, stepIdx, wire, calls, result, inputs,
                    clientSpecVars, detectVars, storeVars, sseVars, summaryVars, callVars >>

(* after an error event: execute_task_stream returns (or its except block  *)
(* ends) and event_generator yields complete                               *)
StreamAfterError ==
    /\ mode = "stream" /\ pc = "error"
    /\ Emit(Event("complete"))
    /\ pc' = "complete"
    /\ UNCHANGED << taskVars, client, created, connected, plan, stepIdx, wire, calls, result, count,
                    inputs, clientSpecVars, detectVars, storeVars, sseVars, summaryVars, callVars >>

\* after complete: event_generator ends
StreamEnd ==
    /\ mode = "stream" /\ pc = "complete"
    /\ pc' = "done"
    /\ UNCHANGED << taskVars, client, created, connected, plan, stepIdx, events, wire, calls, result,
                    count, inputs, clientSpecVars, detectVars, storeVars, sseVars, summaryVars, callVars >>

StreamYieldPoints ==
    { "start", "connecting", "discovering", "capabilities", "planning", "plan_ready",
      "executing_step", "invoking_tool", "tool_result", "tool_error", "finalizing",
      "gemini_response", "error", "complete" }

(* The consumer stops reading: the generators are closed at the yield they *)
(* are suspended in; no except or finally clause of the engine runs.       *)
StreamAbandon ==
    /\ mode = "stream" /\ pc \in StreamYieldPoints /\ ~awaiting
    /\ pc' = "abandoned"
    /\ UNCHANGED << taskVars, client, created, connected, plan, stepIdx, events, wire, calls, result,
                    count, inputs, clientSpecVars, detectVars, storeVars, sseVars, summaryVars, callVars >>

(* ------------------- synchronous: execute_task ------------------------ *)

Return(status, steps, results, text) ==
    result' = [status |-> status, plan |-> steps, results |-> results, result |-> text]

\* the api_key test
SyncKeyCheck ==
    /\ mode = "sync" /\ pc = "idle"
    /\ IF ~apiKey
       THEN /\ Return("error", << >>, << >>, "Please set GEMINI_API_KEY environment variable")
            /\ pc' = "done"
       ELSE /\ pc' = "sync_connect"
            /\ UNCHANGED result
    /\ UNCHANGED << taskVars, client, created, connected, plan, stepIdx, events, wire, calls, count,
                    inputs, clientSpecVars, detectVars, storeVars, sseVars, summaryVars, callVars >>

\* any(word in prompt.lower() ...) under "if connected and caps.get('tools')"
TakesShortcut(tools) == tools # << >> /\ promptDocs

\* UniversalMCPClient(server.endpoint), connect(), get_capabilities()
SyncConnect ==
    /\ mode = "sync" /\ pc = "sync_connect"
    /\ \E e \in Drawn(inputs.connect, ConnectChoices) :
         LET o == ConnectIn(NewClient(url), e)
         IN  /\ client' = o.client
             /\ wire' = wire \o o.sent
             /\ inputs' = Keep("connect", e)
             /\ connected' = (IF o.ret THEN "True" ELSE "False")
             /\ IF ~o.ret
                THEN /\ Return("error", << >>, << >>, "Could not connect")
                     /\ pc' = "done"
                ELSE /\ UNCHANGED result
                     /\ pc' = IF TakesShortcut(GetCapabilities(o.client).tools)
                              THEN "sync_resolve"
                              ELSE "sync_close"
    /\ created' = TRUE
    /\ count' = Bump("connect")
    /\ UNCHANGED << taskVars, plan, stepIdx, events, calls, clientSpecVars, detectVars, storeVars, sseVars, summaryVars, callVars >>

\* "resolve" in t["name"].lower()
NamesResolve(t) == t = RESOLVE_TOOL
\* "docs" in t["name"].lower() or "library" in t["name"].lower()
NamesDocs(t) == t \in {RESOLVE_TOOL, DOCS_TOOL}

\* next((t for t in tools if ...), None)
FirstTool(tools, Matches(_)) ==
    IF \E i \in 1..Len(tools) : Matches(tools[i])
    THEN tools[CHOOSE i \in 1..Len(tools) :
                 Matches(tools[i]) /\ \A j \in 1..(i - 1) : ~Matches(tools[j])]
    ELSE NoTool

\* The tool execute_task is about to call invoke_tool with, NoTool for none.
SyncPendingTool ==
    CASE pc = "sync_resolve" -> FirstTool(client.tools, NamesResolve)
      [] pc = "sync_docs" -> FirstTool(client.tools, NamesDocs)
      [] pc = "sync_exec" /\ stepIdx < Len(PlanSteps(plan)) ->
           LET step == PlanSteps(plan)[stepIdx + 1]
           IN  IF step.action = INVOKE_TOOL THEN step.tool ELSE NoTool
      [] OTHER -> NoTool

\* a call of invoke_tool in execute_task, up to its await
SyncSend ==
    /\ mode = "sync" /\ SyncPendingTool # NoTool
    /\ SendCall(SyncPendingTool)
    /\ UNCHANGED << taskVars, pc, client, created, connected, plan, stepIdx, events, calls, result,
                    count, inputs, clientSpecVars, detectVars, storeVars, sseVars, summaryVars >>

\* the documentation shortcut, step 1: resolve_tool, if the catalog has one
SyncResolve ==
    /\ mode = "sync" /\ pc = "sync_resolve"
    /\ LET tool == FirstTool(client.tools, NamesResolve)
       IN  IF tool # NoTool
           THEN /\ ReturnCall(tool)
                /\ \E r \in DrawnReply(Len(calls) + 1) :
                     LET o == InvokeTool(client, tool, r)
                     IN  /\ calls' = Append(calls, Call(tool, "{libraryName}", o.ret, "shortcut"))
                         /\ inputs' = KeepReply(Len(calls) + 1, r)
           ELSE UNCHANGED << calls, inputs, callVars >>
    /\ pc' = "sync_docs"
    /\ UNCHANGED << taskVars, client, created, connected, plan, stepIdx, events, wire, result, count,
                    clientSpecVars, detectVars, storeVars, sseVars, summaryVars >>

\* The plan the shortcut reports.
ShortcutPlan ==
    << Step("connect", NoTool, "{}"), Step("discover", NoTool, "{}"),
       Step("invoke", NoTool, "{}"), Step(COMPLETE, NoTool, "{}") >>

\* the shortcut, step 2: docs_tool, if the catalog has one; close(); return
SyncDocs ==
    /\ mode = "sync" /\ pc = "sync_docs"
    /\ LET tool == FirstTool(client.tools, NamesDocs)
       IN  IF tool # NoTool
           THEN /\ ReturnCall(tool)
                /\ \E r \in DrawnReply(Len(calls) + 1) :
                     LET o == InvokeTool(client, tool, r)
                     IN  /\ calls' = Append(calls, Call(tool, "{libraryID,topic}", o.ret, "shortcut"))
                         /\ inputs' = KeepReply(Len(calls) + 1, r)
           ELSE UNCHANGED << calls, inputs, callVars >>
    /\ client' = Close(client)
    /\ count' = Bump("close")
    /\ Return("completed", ShortcutPlan, [i \in 1..Len(calls') |-> calls'[i].ret],
              "Successfully processed request")
    /\ pc' = "done"
    /\ UNCHANGED << taskVars, created, connected, plan, stepIdx, events, wire, clientSpecVars, detectVars, storeVars, sseVars, summaryVars >>

\* close(), then _generate_plan_with_gemini(prompt, capabilities, context)
SyncClosePlan ==
    /\ mode = "sync" /\ pc = "sync_close"
    /\ LET tools == GetCapabilities(client).tools
       IN  \E o \in Drawn(inputs.oracle, OracleReplies) :
             /\ plan' = GeneratePlan(apiKey, tools, o)
             /\ inputs' = Keep("oracle", o)
    /\ client' = Close(client)
    /\ count' = [count EXCEPT !.close = @ + 1, !.plan = @ + 1]
    /\ stepIdx' = 0
    /\ pc' = "sync_exec"
    /\ UNCHANGED << taskVars, created, connected, events, wire, calls, result, clientSpecVars, detectVars, storeVars, sseVars, summaryVars, callVars >>

(* One iteration of "for step in plan.get('steps', [])": step["action"]    *)
(* raises out of the loop for a step without the key or that is no         *)
(* mapping; step["tool"] raises inside the try.                            *)
SyncExecStep ==
    /\ mode = "sync" /\ pc = "sync_exec"
    /\ stepIdx < Len(PlanSteps(plan))
    /\ LET step == PlanSteps(plan)[stepIdx + 1]
       IN  IF step.action \in {NO_ACTION, NOT_A_DICT}
           THEN /\ Return("error", << >>, << >>, "Orchestration failed")
                /\ pc' = "done"
                /\ UNCHANGED << stepIdx, calls, inputs, callVars >>
           ELSE IF step.action # INVOKE_TOOL
           THEN /\ stepIdx' = stepIdx + 1
                /\ UNCHANGED << pc, result, calls, inputs, callVars >>
           ELSE IF step.tool = NoTool
           THEN /\ result' = [result EXCEPT !.results = Append(@, EXCEPTION_ERROR)]
                /\ stepIdx' = stepIdx + 1
                /\ UNCHANGED << pc, calls, inputs, callVars >>
           ELSE /\ ReturnCall(step.tool)
                /\ \E r \in DrawnReply(Len(calls) + 1) :
                     LET o == InvokeTool(client, step.tool, r)
                     IN  /\ calls' = Append(calls, Call(step.tool, step.args, o.ret, "plan"))
                         /\ inputs' = KeepReply(Len(calls) + 1, r)
                         /\ result' = [result EXCEPT !.results = Append(@, o.ret)]
                         /\ stepIdx' = stepIdx + 1
                         /\ UNCHANGED pc
    /\ UNCHANGED << taskVars, client, created, connected, plan, events, wire, count,
                    clientSpecVars, detectVars, storeVars, sseVars, summaryVars >>

\* the return after the loop
SyncReturn ==
    /\ mode = "sync" /\ pc = "sync_exec"
    /\ stepIdx = Len(PlanSteps(plan))
    /\ Return("completed", PlanSteps(plan), result.results,
              IF result.results # << >> THEN "results" ELSE "Task completed")
    /\ pc' = "done"
    /\ UNCHANGED << taskVars, client, created, connected, plan, stepIdx, events, wire, calls, count,
                    inputs, clientSpecVars, detectVars, storeVars, sseVars, summaryVars, callVars >>

(* ------------------------- both modes, one input ---------------------- *)

\* The streaming run has ended: the synchronous run starts on the same inputs.
Rerun ==
    /\ paired /\ mode = "stream" /\ pc = "done"
    /\ firstEvents' = events
    /\ mode' = "sync"
    /\ pc' = "idle"
    /\ client' = NewClient(url)
    /\ created' = FALSE
    /\ connected' = "none"
    /\ plan' = NoPlan
    /\ stepIdx' = 0
    /\ events' = << >>
    /\ wire' = << >>
    /\ calls' = << >>
    /\ result' = NoResult
    /\ count' = NoCount
    /\ UNCHANGED << apiKey, url, promptDocs, paired, inputs, clientSpecVars, detectVars, storeVars, sseVars, summaryVars, callVars >>

(* --------------------- operations on one client ----------------------- *)

(* What the last operation was and did: what it returned, the requests it  *)
(* put on the transport, the flag before it, and the response its first    *)
(* request met ("unsent": the operation made no request).                  *)
UNSENT == "unsent"

Op(op, ret, requests, was, reply) ==
    [ op |-> op, ret |-> ret, sent |-> requests # << >>, wasInitialized |-> was,
      requests |-> requests, reply |-> reply ]

ClientStep == mode = "client" /\ ops < MaxOps /\ ops' = ops + 1

engineVars ==
    << taskVars, pc, created, connected, plan, stepIdx, events, calls, result, count, inputs,
       callVars >>

ClientConnect ==
    /\ ClientStep
    /\ \E e \in ConnectEnvs(client.base_url) :
         LET o == ConnectIn(client, e)
         IN  /\ client' = o.client
             /\ wire' = wire \o o.sent
             /\ lastRet' = Op("connect", IF o.ret THEN "True" ELSE "False", o.sent,
                              client.initialized,
                              IF o.sent # << >> THEN e.rInit.kind ELSE UNSENT)
    /\ snapshot' = NoSnapshot
    /\ UNCHANGED << engineVars, detectVars, storeVars, sseVars, summaryVars >>

\* The replies one initialize() may meet.
InitializeEnvs(base) ==
    IF base.scheme = "stdio"
    THEN { g \in Handshakes : g.rInit.kind = "none" /\ g.rTools = NoListReply }
    ELSE Handshakes

ClientInitialize ==
    /\ ClientStep
    /\ \E e \in InitializeEnvs(client.base_url) :
         LET o == Initialize(client, e.rInit, e.rTools, e.rRes)
         IN  /\ client' = o.client
             /\ wire' = wire \o o.sent
             /\ lastRet' = Op("initialize", IF o.ret THEN "True" ELSE "False", o.sent,
                              client.initialized,
                              SendRequest(client, e.rInit,
                                          [kind |-> "none", info |-> EmptyInfo]).resp.kind)
    /\ snapshot' = NoSnapshot
    /\ UNCHANGED << engineVars, detectVars, storeVars, sseVars, summaryVars >>

ClientListTools ==
    /\ ClientStep
    /\ \E r \in ToolsReplies :
         LET o == ListTools(client, r)
         IN  /\ client' = o.client
             /\ wire' = wire \o o.sent
             /\ lastRet' = Op("_list_tools", "tools", o.sent, client.initialized,
                              SendRequest(client, r, NoListReply).resp.kind)
    /\ snapshot' = NoSnapshot
    /\ UNCHANGED << engineVars, detectVars, storeVars, sseVars, summaryVars >>

ClientListResources ==
    /\ ClientStep
    /\ \E r \in ResourcesReplies :
         LET o == ListResources(client, r)
         IN  /\ client' = o.client
             /\ wire' = wire \o o.sent
             /\ lastRet' = Op("_list_resources", "resources", o.sent, client.initialized,
                              SendRequest(client, r, NoListReply).resp.kind)
    /\ snapshot' = NoSnapshot
    /\ UNCHANGED << engineVars, detectVars, storeVars, sseVars, summaryVars >>

ClientInvokeTool ==
    /\ ClientStep
    /\ \E r \in CallReplies :
         LET o == InvokeTool(client, ECHO_TOOL, r)
         IN  /\ wire' = wire \o o.sent
             /\ lastRet' = Op("invoke_tool", o.ret, o.sent, client.initialized,
                              SendRequest(client, r, [kind |-> "none", shape |-> "dict"]).resp.kind)
    /\ snapshot' = snapshot
    /\ UNCHANGED << client, engineVars, detectVars, storeVars, sseVars, summaryVars >>

ClientGetCapabilities ==
    /\ ClientStep
    /\ lastRet' = Op("get_capabilities", GetCapabilities(client).protocol, << >>,
                     client.initialized, UNSENT)
    /\ snapshot' = [calls |-> snapshot.calls + 1, caps |-> GetCapabilities(client)]
    /\ UNCHANGED << client, wire, engineVars, detectVars, storeVars, sseVars, summaryVars >>

ClientClose ==
    /\ ClientStep
    /\ client' = Close(client)
    /\ lastRet' = Op("close", "None", << >>, client.initialized, UNSENT)
    /\ snapshot' = NoSnapshot
    /\ UNCHANGED << wire, engineVars, detectVars, storeVars, sseVars, summaryVars >>

(* --------------------------- specifications --------------------------- *)

InitTask ==
    /\ pc = "idle"
    /\ apiKey \in BOOLEAN
    /\ url \in TaskUrls
    /\ promptDocs \in BOOLEAN
    /\ client = NewClient(url)
    /\ created = FALSE
    /\ connected = "none"
    /\ plan = NoPlan
    /\ stepIdx = 0
    /\ events = << >>
    /\ wire = << >>
    /\ calls = << >>
    /\ result = NoResult
    /\ count = NoCount
    /\ inputs = NoInputs
    /\ firstEvents = << >>
    /\ ops = 0
    /\ lastRet = Op("none", "None", << >>, FALSE, UNSENT)
    /\ snapshot = NoSnapshot
    /\ awaiting = FALSE
    /\ inflight = 0
    /\ behaviour = NoServer
    /\ detection = NoDetection
    /\ discovery = NoDiscovery
    /\ StoreUnused
    /\ sseCall = NoSseCall
    /\ summarized = NotSummarized

Init ==
    /\ mode \in {"sync", "stream"}
    /\ paired = FALSE
    /\ InitTask
    /\ mode = "stream" => ~promptDocs   \* the streaming mode does not read the prompt

Stream ==
    \/ StreamStart \/ StreamKeyCheck \/ StreamConnect \/ StreamDiscover \/ StreamPlanning
    \/ StreamPlan \/ StreamFirstStep \/ StreamStepRaises \/ StreamSkipStep
    \/ StreamInvoking \/ StreamSend \/ StreamInvoke \/ StreamAfterTool \/ StreamFinalize
    \/ StreamClose \/ StreamAfterError \/ StreamEnd \/ StreamAbandon

Sync ==
    \/ SyncKeyCheck \/ SyncConnect \/ SyncSend \/ SyncResolve \/ SyncDocs \/ SyncClosePlan
    \/ SyncExecStep \/ SyncReturn

Next == Stream \/ Sync

Spec == Init /\ [][Next]_vars

\* Both modes on the same inputs: the streaming run, then the synchronous one.
InitPair ==
    /\ mode = "stream"
    /\ paired = TRUE
    /\ InitTask

NextPair == Stream \/ Sync \/ Rerun

PairSpec == InitPair /\ [][NextPair]_vars

\* One client under any sequence of its operations.
InitClient ==
    /\ mode = "client"
    /\ paired = FALSE
    /\ pc = "idle"
    /\ apiKey = TRUE
    /\ url \in BaseUrls
    /\ promptDocs = FALSE
    /\ client = NewClient(url)
    /\ created = TRUE
    /\ connected = "none"
    /\ plan = NoPlan
    /\ stepIdx = 0
    /\ events = << >>
    /\ wire = << >>
    /\ calls = << >>
    /\ result = NoResult
    /\ count = NoCount
    /\ inputs = NoInputs
    /\ firstEvents = << >>
    /\ ops = 0
    /\ lastRet = Op("none", "None", << >>, FALSE, UNSENT)
    /\ snapshot = NoSnapshot
    /\ awaiting = FALSE
    /\ inflight = 0
    /\ behaviour = NoServer
    /\ detection = NoDetection
    /\ discovery = NoDiscovery
    /\ StoreUnused
    /\ sseCall = NoSseCall
    /\ summarized = NotSummarized

NextClient ==
    \/ ClientConnect \/ ClientInitialize \/ ClientListTools \/ ClientListResources
    \/ ClientInvokeTool \/ ClientGetCapabilities \/ ClientClose

ClientSpec == InitClient /\ [][NextClient]_vars

(* ----------------------- detect_protocol alone ------------------------ *)

\* The base URLs handed to detect_protocol.
DetectUrls ==
    BaseUrls \cup { Url("https", "srv", ""), Url("https", "context7", "/"),
                    Url("wss", "srv", "/"), Url("stdio", "proc", "/") }

\* What a candidate path may answer.
PathAnswers ==
    { [json |-> js, sse |-> e, fail |-> f] :
        js \in { {}, {"initialize"}, {"tools/list"}, Range(TEST_METHODS) },
        e \in BOOLEAN, f \in {"non200"} }
    \cup { [json |-> {}, sse |-> FALSE, fail |-> f] : f \in FailureKinds }

\* Servers on which at most two candidate paths answer a probe.
DetectBehaviours ==
    { [ [q \in Range(ENDPOINT_PATTERNS) |-> [json |-> {}, sse |-> FALSE, fail |-> f]]
          EXCEPT ![p1] = a1, ![p2] = a2 ] :
        f \in FailureKinds, p1 \in Range(ENDPOINT_PATTERNS), p2 \in {"/sse", ""},
        a1 \in PathAnswers, a2 \in PathAnswers }

InitDetect ==
    /\ mode = "detect"
    /\ paired = FALSE
    /\ pc = "idle"
    /\ apiKey = TRUE
    /\ url \in DetectUrls
    /\ promptDocs = FALSE
    /\ client = NewClient(url)
    /\ created = FALSE
    /\ connected = "none"
    /\ plan = NoPlan
    /\ stepIdx = 0
    /\ events = << >>
    /\ wire = << >>
    /\ calls = << >>
    /\ result = NoResult
    /\ count = NoCount
    /\ inputs = NoInputs
    /\ firstEvents = << >>
    /\ ops = 0
    /\ lastRet = Op("none", "None", << >>, FALSE, UNSENT)
    /\ snapshot = NoSnapshot
    /\ awaiting = FALSE
    /\ inflight = 0
    /\ behaviour \in DetectBehaviours
    /\ detection = NoDetection
    /\ discovery = NoDiscovery
    /\ StoreUnused
    /\ sseCall = NoSseCall
    /\ summarized = NotSummarized

\* MCPEndpointDetector.detect_protocol(base_url)
Detect ==
    /\ mode = "detect" /\ pc = "idle"
    /\ detection' = DetectProtocol(url, behaviour)
    /\ pc' = "done"
    /\ UNCHANGED << taskVars, client, created, connected, plan, stepIdx, events, wire, calls,
                    result, count, inputs, clientSpecVars, callVars, behaviour, discovery, storeVars, sseVars, summaryVars >>

NextDetect == Detect

DetectSpec == InitDetect /\ [][NextDetect]_vars

(* -------------------- discover_mcp_capabilities ----------------------- *)

\* The tool list in the tools/list response connect() read, if it read one.
ListedBy(e, sent) ==
    IF /\ \E i \in 1..Len(sent) : sent[i].method = "tools/list"
       /\ e.rTools.kind = "result" /\ e.rTools.shape = "dict"
    THEN e.rTools.items
    ELSE << >>

InitDiscovery ==
    /\ mode = "discover"
    /\ paired = FALSE
    /\ pc = "idle"
    /\ apiKey = TRUE
    /\ url \in BaseUrls
    /\ promptDocs = FALSE
    /\ client = NewClient(url)
    /\ created = TRUE
    /\ connected = "none"
    /\ plan = NoPlan
    /\ stepIdx = 0
    /\ events = << >>
    /\ wire = << >>
    /\ calls = << >>
    /\ result = NoResult
    /\ count = NoCount
    /\ inputs = NoInputs
    /\ firstEvents = << >>
    /\ ops = 0
    /\ lastRet = Op("none", "None", << >>, FALSE, UNSENT)
    /\ snapshot = NoSnapshot
    /\ awaiting = FALSE
    /\ inflight = 0
    /\ behaviour = NoServer
    /\ detection = NoDetection
    /\ discovery = NoDiscovery
    /\ StoreUnused
    /\ sseCall = NoSseCall
    /\ summarized = NotSummarized

\* discover_mcp_capabilities up to the end of its try block.
DiscoverViaClient ==
    /\ mode = "discover" /\ pc = "idle"
    /\ \E e \in ConnectEnvs(client.base_url) :
         LET o == ConnectIn(client, e)
             caps == GetCapabilities(o.client)
         IN  /\ wire' = wire \o o.sent
             /\ connected' = IF o.ret THEN "True" ELSE "False"
             /\ IF o.ret
                THEN /\ client' = Close(o.client)
                     /\ discovery' = [ tools |-> caps.tools, protocol |-> caps.protocol,
                                       via |-> IF caps.tools # << >> THEN "client" ELSE "none",
                                       carried |-> ListedBy(e, o.sent) ]
                     /\ pc' = IF caps.tools # << >> THEN "done" ELSE "fallback"
                ELSE /\ client' = o.client
                     /\ discovery' = discovery
                     /\ pc' = "fallback"
    /\ UNCHANGED << taskVars, created, plan, stepIdx, events, calls, result, count, inputs,
                    clientSpecVars, callVars, behaviour, detection, storeVars, sseVars, summaryVars >>

\* discover_mcp_capabilities after the try block: the fallbacks.
DiscoverFallback ==
    /\ mode = "discover" /\ pc = "fallback"
    /\ pc' = "done"
    /\ IF url.scheme \in {"http", "https"}
       THEN \E replies \in [1..Len(DISCOVERY_ENDPOINTS) -> DiscoveryReplies] :
              LET d == DiscoverHttpCapabilities(url, discovery.tools, replies)
              IN  discovery' = [discovery EXCEPT !.tools = d.tools,
                                                 !.via = "http",
                                                 !.carried = Carried(replies[d.posts])]
       ELSE IF url.scheme = "stdio"
            THEN discovery' = [discovery EXCEPT !.tools = << EXECUTE_TOOL >>, !.via = "stdio"]
            ELSE discovery' = discovery
    /\ UNCHANGED << taskVars, client, created, connected, plan, stepIdx, events, wire, calls,
                    result, count, inputs, clientSpecVars, callVars, behaviour, detection, storeVars, sseVars, summaryVars >>

NextDiscovery == DiscoverViaClient \/ DiscoverFallback

DiscoverySpec == InitDiscovery /\ [][NextDiscovery]_vars

(* ------------------- the public calls of a client --------------------- *)

(* One client under connect(), invoke_tool(), get_capabilities() and       *)
(* close(), for longer than ClientSpec goes: the handshake is answered     *)
(* with a bare result or not at all.                                       *)
LifecycleEnvs(base) ==
    { e \in ConnectEnvs(base) :
        /\ e.rInit.kind \in {"none", "result"}
        /\ e.rInit.info = EmptyInfo }

InitLifecycle ==
    /\ mode = "lifecycle"
    /\ paired = FALSE
    /\ pc = "idle"
    /\ apiKey = TRUE
    /\ url \in BaseUrls
    /\ promptDocs = FALSE
    /\ client = NewClient(url)
    /\ created = TRUE
    /\ connected = "none"
    /\ plan = NoPlan
    /\ stepIdx = 0
    /\ events = << >>
    /\ wire = << >>
    /\ calls = << >>
    /\ result = NoResult
    /\ count = NoCount
    /\ inputs = NoInputs
    /\ firstEvents = << >>
    /\ ops = 0
    /\ lastRet = Op("none", "None", << >>, FALSE, UNSENT)
    /\ snapshot = NoSnapshot
    /\ awaiting = FALSE
    /\ inflight = 0
    /\ behaviour = NoServer
    /\ detection = NoDetection
    /\ discovery = NoDiscovery
    /\ StoreUnused
    /\ sseCall = NoSseCall
    /\ summarized = NotSummarized

LifecycleStep == mode = "lifecycle" /\ ops < MaxCalls /\ ops' = ops + 1

LifecycleConnect ==
    /\ LifecycleStep
    /\ \E e \in LifecycleEnvs(client.base_url) :
         LET o == ConnectIn(client, e)
         IN  /\ client' = o.client
             /\ wire' = wire \o o.sent
             /\ lastRet' = Op("connect", IF o.ret THEN "True" ELSE "False", o.sent,
                              client.initialized,
                              IF o.sent # << >> THEN e.rInit.kind ELSE UNSENT)
    /\ snapshot' = NoSnapshot
    /\ UNCHANGED << engineVars, detectVars, storeVars, sseVars, summaryVars >>

LifecycleClose ==
    /\ LifecycleStep
    /\ client' = Close(client)
    /\ lastRet' = Op("close", "None", << >>, client.initialized, UNSENT)
    /\ snapshot' = NoSnapshot
    /\ UNCHANGED << wire, engineVars, detectVars, storeVars, sseVars, summaryVars >>

LifecycleInvokeTool ==
    /\ LifecycleStep
    /\ \E r \in CallReplies :
         LET o == InvokeTool(client, ECHO_TOOL, r)
         IN  /\ wire' = wire \o o.sent
             /\ lastRet' = Op("invoke_tool", o.ret, o.sent, client.initialized,
                              SendRequest(client, r, [kind |-> "none", shape |-> "dict"]).resp.kind)
    /\ snapshot' = snapshot
    /\ UNCHANGED << client, engineVars, detectVars, storeVars, sseVars, summaryVars >>

\* get_capabilities, were it to hand out the catalog and forget it.
LifecycleGetCapabilitiesDrains ==
    /\ LifecycleStep
    /\ lastRet' = Op("get_capabilities", GetCapabilities(client).protocol, << >>,
                     client.initialized, UNSENT)
    /\ snapshot' = [calls |-> snapshot.calls + 1, caps |-> GetCapabilities(client)]
    /\ client' = [client EXCEPT !.tools = << >>]
    /\ UNCHANGED << wire, engineVars, detectVars, storeVars, sseVars, summaryVars >>

LifecycleGetCapabilities ==
    /\ LifecycleStep
    /\ lastRet' = Op("get_capabilities", GetCapabilities(client).protocol, << >>,
                     client.initialized, UNSENT)
    /\ snapshot' = [calls |-> snapshot.calls + 1, caps |-> GetCapabilities(client)]
    /\ UNCHANGED << client, wire, engineVars, detectVars, storeVars, sseVars, summaryVars >>

NextLifecycle ==
    \/ LifecycleConnect \/ LifecycleInvokeTool \/ LifecycleGetCapabilities \/ LifecycleClose

LifecycleSpec == InitLifecycle /\ [][NextLifecycle]_vars

(* -------------------- the API over the server store ------------------- *)

\* The response of a handler: the status code and the record it returns.
Respond(op, id, code, ref) ==
    [ n |-> api.n + 1, op |-> op, id |-> id, code |-> code, ref |-> ref, list |-> {},
      client |-> FALSE, events |-> FALSE ]

\* A coroutine the event loop holds: a background deploy_server_task, or a
\* register_server handler waiting for discover_mcp_capabilities.  A
\* coroutine that has finished is no longer held.
Job(kind, ref, id, method, at) ==
    [kind |-> kind, ref |-> ref, id |-> id, method |-> method, pc |-> at]

Finished(js, j) == [i \in 1..(Len(js) - 1) |-> IF i < j THEN js[i] ELSE js[i + 1]]

Request == mode = "store" /\ received < MaxRequests /\ received' = received + 1

otherVars ==
    << taskVars, pc, client, created, connected, plan, stepIdx, events, wire, calls, result,
       count, inputs, clientSpecVars, callVars, detectVars, sseVars, summaryVars >>

\* discover_servers, for a search that finds one repository
ApiDiscoverServers ==
    /\ Request
    /\ \E repo \in Repos, auto_deploy \in BOOLEAN :
         LET id == GenerateServerId(repo)
             s1 == NewRecord(store, ServerInfo(id, "auto", "discovered", "None"))
         IN  IF IsServerCached(store, id)
             THEN /\ api' = Respond("discover_servers", id, 200, GetServer(store, id))
                  /\ UNCHANGED << store, jobs >>
             ELSE /\ store' = CacheDiscoveredServer(s1, LastRef(s1))
                  /\ jobs' = IF auto_deploy
                             THEN Append(jobs, Job("auto_deploy", LastRef(s1), id, "auto",
                                                   "scheduled"))
                             ELSE jobs
                  /\ api' = Respond("discover_servers", id, 200, LastRef(s1))
    /\ UNCHANGED << deleted, otherVars >>

\* ApiRegisterServer, were it not to look for the id in the registry.
ApiRegisterServerAlways ==
    /\ Request
    /\ \E endpoint \in Endpoints :
         LET id == GenerateServerId(endpoint)
             s1 == NewRecord(store, ServerInfo(id, "external", "deployed", "set"))
         IN  IF FALSE
             THEN /\ api' = Respond("register_server", id, 200, GetServer(store, id))
                  /\ UNCHANGED << store, jobs >>
             ELSE /\ store' = s1
                  /\ jobs' = Append(jobs, Job("register", LastRef(s1), id, "external",
                                              "discovering"))
                  /\ api' = api
    /\ UNCHANGED << deleted, otherVars >>

\* register_server up to "await discover_mcp_capabilities(...)"
ApiRegisterServer ==
    /\ Request
    /\ \E endpoint \in Endpoints :
         LET id == GenerateServerId(endpoint)
             s1 == NewRecord(store, ServerInfo(id, "external", "deployed", "set"))
         IN  IF IsServerRegistered(store, id)
             THEN /\ api' = Respond("register_server", id, 200, GetServer(store, id))
                  /\ UNCHANGED << store, jobs >>
             ELSE /\ store' = s1
                  /\ jobs' = Append(jobs, Job("register", LastRef(s1), id, "external",
                                              "discovering"))
                  /\ api' = api
    /\ UNCHANGED << deleted, otherVars >>

(* What discover_mcp_capabilities returns to register_server: a mapping     *)
(* with the tools of the server that answers, or, when none answers, the   *)
(* mapping it starts from, with no tools.                                  *)
DiscoveredCapabilities == {"tools", "no_tools"}

\* register_server from the return of discover_mcp_capabilities on
ApiRegisterServerResumes ==
    /\ mode = "store"
    /\ \E j \in 1..Len(jobs) :
         /\ jobs[j].kind = "register" /\ jobs[j].pc = "discovering"
         /\ \E capabilities \in DiscoveredCapabilities :
              store' = RegisterServer(
                         [store EXCEPT !.records[jobs[j].ref].capabilities = capabilities],
                         jobs[j].ref)
         /\ jobs' = Finished(jobs, j)
         /\ api' = Respond("register_server", jobs[j].id, 200, jobs[j].ref)
    /\ UNCHANGED << received, deleted, otherVars >>

\* deploy_server
ApiDeployServer ==
    /\ Request
    /\ \E repo \in Repos, method \in RequestMethods :
         LET id == GenerateServerId(repo)
             s1 == NewRecord(store, ServerInfo(id, method, "discovered", "None"))
         IN  IF IsServerDeployed(store, id)
             THEN /\ api' = Respond("deploy_server", id, 200, GetServer(store, id))
                  /\ UNCHANGED << store, jobs >>
             ELSE /\ store' = CacheDiscoveredServer(s1, LastRef(s1))
                  /\ jobs' = Append(jobs, Job("deploy", LastRef(s1), id, method, "scheduled"))
                  /\ api' = Respond("deploy_server", id, 200, LastRef(s1))
    /\ UNCHANGED << deleted, otherVars >>

\* The filters list_servers is called with.
ListFilters ==
    { [status |-> "None", method |-> "None"], [status |-> "deployed", method |-> "None"],
      [status |-> "None", method |-> "external"] }

\* list_servers
ApiListServers ==
    /\ Request
    /\ \E f \in ListFilters :
         api' = [Respond("list_servers", NONEXISTENT, 200, NoRef) EXCEPT
                   !.list = FilterServers(store, f.status, f.method)]
    /\ UNCHANGED << store, jobs, deleted, otherVars >>

\* get_server
ApiGetServer ==
    /\ Request
    /\ \E id \in ServerIds :
         api' = IF GetServer(store, id) = NoRef
                THEN Respond("get_server", id, 404, NoRef)
                ELSE Respond("get_server", id, 200, GetServer(store, id))
    /\ UNCHANGED << store, jobs, deleted, otherVars >>

\* delete_server
ApiDeleteServer ==
    /\ Request
    /\ \E id \in ServerIds :
         IF IsServerRegistered(store, id) \/ IsServerCached(store, id)
         THEN /\ store' = RemoveServer(store, id)
              /\ deleted' = deleted \cup {id}
              /\ api' = Respond("delete_server", id, 200, NoRef)
         ELSE /\ api' = Respond("delete_server", id, 404, NoRef)
              /\ UNCHANGED << store, deleted >>
    /\ UNCHANGED << jobs, otherVars >>

\* Guarded, were the handlers to look the server up only.
GuardedByLookupOnly(op, id) ==
    IF GetServer(store, id) = NoRef THEN Respond(op, id, 404, NoRef)
    ELSE [Respond(op, id, 200, GetServer(store, id)) EXCEPT
            !.client = TRUE, !.events = (op = "orchestrate_task_stream")]

(* The checks at the head of orchestrate_task, orchestrate_task_stream and *)
(* invoke_tool, and what follows them: the orchestrator or the MCPClient   *)
(* is created and, for the stream, events are sent.                        *)
Guarded(op, id) ==
    IF GetServer(store, id) = NoRef THEN Respond(op, id, 404, NoRef)
    ELSE IF ~IsServerDeployed(store, id) THEN Respond(op, id, 400, NoRef)
    ELSE [Respond(op, id, 200, GetServer(store, id)) EXCEPT
            !.client = TRUE, !.events = (op = "orchestrate_task_stream")]

\* orchestrate_task
ApiOrchestrateTask ==
    /\ Request
    /\ \E id \in ServerIds : api' = Guarded("orchestrate_task", id)
    /\ UNCHANGED << store, jobs, deleted, otherVars >>

\* orchestrate_task_stream
ApiOrchestrateTaskStream ==
    /\ Request
    /\ \E id \in ServerIds : api' = Guarded("orchestrate_task_stream", id)
    /\ UNCHANGED << store, jobs, deleted, otherVars >>

\* invoke_tool
ApiInvokeTool ==
    /\ Request
    /\ \E id \in ServerIds : api' = Guarded("invoke_tool", id)
    /\ UNCHANGED << store, jobs, deleted, otherVars >>

\* clear_cache
ApiClearCache ==
    /\ Request
    /\ store' = ClearCache(store)
    /\ api' = Respond("clear_cache", NONEXISTENT, 200, NoRef)
    /\ UNCHANGED << jobs, deleted, otherVars >>

(* What the deployer does for a task before the task's first suspension:   *)
(* clone_and_inspect raises, or the method is settled and deploy_docker or *)
(* deploy_e2b returns an endpoint, or the deploy call raises, or           *)
(* deploy_npx or deploy_local reaches its asyncio.sleep.                   *)
DeployOutcomes(job) ==
    { [method |-> job.method, does |-> "clone_raises"] }
    \cup { [method |-> (IF job.method = "auto" THEN DetermineMethod(job.id) ELSE job.method),
             does |-> d] : d \in {"endpoint", "raises", "sleeps"} }

Possible(o) ==
    \/ o.does = "clone_raises"
    \/ o.method = "docker" /\ o.does \in {"endpoint", "raises"}
    \/ o.method = "e2b" /\ o.does = "endpoint"
    \/ o.method \in {"npx", "local"} /\ o.does \in {"sleeps", "raises"}

IsDeployTask(job) == job.kind \in {"deploy", "auto_deploy"}

\* deploy_server_task up to its first suspension
DeployTaskStart ==
    /\ mode = "store"
    /\ \E j \in 1..Len(jobs) :
         /\ IsDeployTask(jobs[j]) /\ jobs[j].pc = "scheduled"
         /\ \E o \in { x \in DeployOutcomes(jobs[j]) : Possible(x) } :
              LET s1 == IF o.does = "clone_raises" THEN store
                        ELSE [store EXCEPT !.records[jobs[j].ref].deploy_method = o.method]
              IN  CASE o.does = "endpoint" ->
                         /\ store' = UpdateServerStatus(s1, jobs[j].id, "deployed", "set",
                                                        "None", "None")
                         /\ jobs' = [jobs EXCEPT ![j].pc = "discovering"]
                    [] o.does = "sleeps" ->
                         /\ store' = s1
                         /\ jobs' = [jobs EXCEPT ![j].pc = "sleeping"]
                    [] OTHER ->
                         /\ store' = UpdateServerStatus(s1, jobs[j].id, "failed", "None",
                                                        "set", "None")
                         /\ jobs' = Finished(jobs, j)
    /\ UNCHANGED << received, api, deleted, otherVars >>

\* DeployTaskWakes, were the task to update and register its own server_info.
DeployTaskWakesOwnRecord ==
    /\ mode = "store"
    /\ \E j \in 1..Len(jobs) :
         /\ IsDeployTask(jobs[j]) /\ jobs[j].pc = "sleeping"
         /\ store' = [store EXCEPT !.records[jobs[j].ref].status = "deployed",
                                   !.records[jobs[j].ref].endpoint = "set",
                                   !.server_registry[jobs[j].id] = jobs[j].ref]
         /\ jobs' = [jobs EXCEPT ![j].pc = "discovering"]
    /\ UNCHANGED << received, api, deleted, otherVars >>

\* deploy_server_task from the return of deploy_npx or deploy_local
DeployTaskWakes ==
    /\ mode = "store"
    /\ \E j \in 1..Len(jobs) :
         /\ IsDeployTask(jobs[j]) /\ jobs[j].pc = "sleeping"
         /\ store' = UpdateServerStatus(store, jobs[j].id, "deployed", "set", "None", "None")
         /\ jobs' = [jobs EXCEPT ![j].pc = "discovering"]
    /\ UNCHANGED << received, api, deleted, otherVars >>

\* deploy_server_task from the return of discover_mcp_capabilities
DeployTaskCapabilities ==
    /\ mode = "store"
    /\ \E j \in 1..Len(jobs) :
         /\ IsDeployTask(jobs[j]) /\ jobs[j].pc = "discovering"
         /\ \E hasTools \in BOOLEAN :
              store' = IF hasTools
                       THEN UpdateServerStatus(store, jobs[j].id, "deployed", "None", "None",
                                               "enhanced")
                       ELSE store
         /\ jobs' = Finished(jobs, j)
    /\ UNCHANGED << received, api, deleted, otherVars >>

InitStore ==
    /\ mode = "store"
    /\ paired = FALSE
    /\ pc = "idle"
    /\ apiKey = TRUE
    /\ url = Url("http", "srv", "")
    /\ promptDocs = FALSE
    /\ client = NewClient(url)
    /\ created = FALSE
    /\ connected = "none"
    /\ plan = NoPlan
    /\ stepIdx = 0
    /\ events = << >>
    /\ wire = << >>
    /\ calls = << >>
    /\ result = NoResult
    /\ count = NoCount
    /\ inputs = NoInputs
    /\ firstEvents = << >>
    /\ ops = 0
    /\ lastRet = Op("none", "None", << >>, FALSE, UNSENT)
    /\ snapshot = NoSnapshot
    /\ awaiting = FALSE
    /\ inflight = 0
    /\ behaviour = NoServer
    /\ detection = NoDetection
    /\ discovery = NoDiscovery
    /\ StoreUnused
    /\ sseCall = NoSseCall
    /\ summarized = NotSummarized

DeployTaskStep == DeployTaskStart \/ DeployTaskWakes \/ DeployTaskCapabilities

NextStore ==
    \/ ApiDiscoverServers \/ ApiRegisterServer \/ ApiRegisterServerResumes \/ ApiDeployServer
    \/ ApiListServers \/ ApiGetServer \/ ApiDeleteServer \/ ApiOrchestrateTask
    \/ ApiOrchestrateTaskStream \/ ApiInvokeTool \/ ApiClearCache
    \/ DeployTaskStart \/ DeployTaskWakes \/ DeployTaskCapabilities

StoreSpec == InitStore /\ [][NextStore]_vars

\* Every coroutine the event loop holds is resumed: a deployer call that
\* returns or raises lets its task go on.
FairStoreSpec ==
    StoreSpec /\ WF_vars(DeployTaskStep) /\ WF_vars(ApiRegisterServerResumes)

(* ---------------------- one call of _send_sse ------------------------- *)

InitSse ==
    /\ mode = "sse"
    /\ paired = FALSE
    /\ pc = "idle"
    /\ apiKey = TRUE
    /\ url = Url("http", "srv", "")
    /\ promptDocs = FALSE
    /\ client = NewClient(url)
    /\ created = FALSE
    /\ connected = "none"
    /\ plan = NoPlan
    /\ stepIdx = 0
    /\ events = << >>
    /\ wire = << >>
    /\ calls = << >>
    /\ result = NoResult
    /\ count = NoCount
    /\ inputs = NoInputs
    /\ firstEvents = << >>
    /\ ops = 0
    /\ lastRet = Op("none", "None", << >>, FALSE, UNSENT)
    /\ snapshot = NoSnapshot
    /\ awaiting = FALSE
    /\ inflight = 0
    /\ behaviour = NoServer
    /\ detection = NoDetection
    /\ discovery = NoDiscovery
    /\ StoreUnused
    /\ summarized = NotSummarized
    /\ \E session \in BOOLEAN, endpoint \in SseEndpoints, json \in JsonAnswers,
          stream \in StreamAnswers :
         sseCall = [ session |-> session, endpoint |-> endpoint, json |-> json,
                     stream |-> stream, called |-> FALSE, posts |-> << >>, response |-> NONE,
                     read |-> 0 ]

\* await self._send_sse(request)
SendSseCall ==
    /\ mode = "sse"
    /\ ~sseCall.called
    /\ LET sent == SendSse(sseCall.session, sseCall.endpoint, sseCall.json, sseCall.stream)
       IN  sseCall' = [sseCall EXCEPT !.called = TRUE, !.posts = sent.posts,
                                      !.response = sent.response, !.read = sent.read]
    /\ UNCHANGED << taskVars, pc, client, created, connected, plan, stepIdx, events, wire, calls,
                    result, count, inputs, clientSpecVars, callVars, detectVars, storeVars,
                    summaryVars >>

NextSse == SendSseCall

SseSpec == InitSse /\ [][NextSse]_vars

(* ----------------- invoke_tool over a failing transport ---------------- *)

(* What a tools/call request meets on the transport: an exception (a       *)
(* refused connection, a timeout), a status that is not 200, a body that   *)
(* is not JSON, or a JSON body, which is one of CallReplies or a JSON      *)
(* number.                                                                 *)
TransportOutcomes ==
    { [transport |-> t, body |-> [kind |-> "none", shape |-> "dict"]] :
        t \in {"exception", "non200", "undecodable"} }
    \cup { [transport |-> "ok", body |-> b] :
             b \in CallReplies \cup { [kind |-> "not_a_mapping", shape |-> "scalar"] } }

(* What _send_jsonrpc, _send_sse and _send_websocket return for an outcome: *)
(* the body, or None, every exception being caught in the _send_* method.  *)
Delivered(o) == IF o.transport = "ok" THEN o.body ELSE [kind |-> "none", shape |-> "dict"]

\* What the request met, "unsent" when there is no transport to send it on.
Met(c, o) ==
    IF ~SendRequest(c, Delivered(o), Delivered(o)).sent THEN UNSENT
    ELSE IF o.transport = "ok" THEN o.body.kind ELSE o.transport

InvokeOverTransport ==
    /\ LifecycleStep
    /\ \E o \in TransportOutcomes :
         LET r == InvokeTool(client, ECHO_TOOL, Delivered(o))
         IN  /\ wire' = wire \o r.sent
             /\ lastRet' = Op("invoke_tool", r.ret, r.sent, client.initialized, Met(client, o))
    /\ snapshot' = snapshot
    /\ UNCHANGED << client, engineVars, detectVars, storeVars, sseVars, summaryVars >>

NextInvoke == LifecycleConnect \/ LifecycleClose \/ InvokeOverTransport

InvokeSpec == InitLifecycle /\ [][NextInvoke]_vars

(* ------------------------------ claims -------------------------------- *)

Names(evs) == [i \in 1..Len(evs) |-> evs[i].event]
IsInvoke(st) == st.action = INVOKE_TOOL
InvokeSteps(steps) == SelectSeq(steps, IsInvoke)
IsToolRecord(e) == e.event \in {"tool_result", "tool_error"}
IsInvoking(e) == e.event = "invoking_tool"
IsPlanCall(c) == c.phase = "plan"
HasEvent(name) == \E i \in 1..Len(events) : events[i].event = name

\* A plan of the data model: every step has one of the three actions, and
\* every invoke_tool step names its tool.
WellFormed(steps) ==
    \A i \in 1..Len(steps) :
      /\ steps[i].action \in {INVOKE_TOOL, ANALYZE, COMPLETE}
      /\ steps[i].action = INVOKE_TOOL => steps[i].tool # NoTool

\* The invocation failed: an error response or no response.
Failed(ret) == HasErrorKey(ret)

\* The record of a step says the step failed.
MarksFailure(e) == e.event = "tool_error" \/ (e.event = "tool_result" /\ ~e.success)

\* The task executed its plan to the end.
PlanExecuted ==
    \/ mode = "stream" /\ count.plan = 1 /\ pc \in {"finalizing", "gemini_response", "complete", "done"}
    \/ mode = "sync" /\ count.plan = 1 /\ pc = "done"

(* C1: in both modes, for a plan with n invoke_tool steps and whichever of *)
(* the invocations fail, all n steps are invoked in plan order, n per-step *)
(* records are produced, a failed invocation is recorded as a failure, and *)
(* the task ends completed, never in error.                                *)
C1_FailureIsolation ==
    LET steps == PlanSteps(plan)
        inv == InvokeSteps(steps)
        made == SelectSeq(calls, IsPlanCall)
        records == SelectSeq(events, IsToolRecord)
    IN  (count.plan = 1 /\ WellFormed(steps)) =>
          /\ ~HasEvent("error") /\ result.status # "error"
          /\ Len(made) <= Len(inv)
          /\ \A k \in 1..Len(made) :
               made[k].tool = inv[k].tool /\ made[k].args = inv[k].args
          /\ PlanExecuted =>
               /\ Len(made) = Len(inv)
               /\ mode = "stream" =>
                    /\ Len(records) = Len(inv)
                    /\ \A k \in 1..Len(inv) :
                         /\ records[k].tool = inv[k].tool
                         /\ Failed(made[k].ret) => MarksFailure(records[k])
                         /\ made[k].ret = PAYLOAD => ~MarksFailure(records[k])
                    /\ HasEvent("finalizing")
               /\ mode = "sync" =>
                    /\ result.status = "completed"
                    /\ Len(result.results) = Len(inv)
                    /\ \A k \in 1..Len(inv) : result.results[k] = made[k].ret

\* A streamed two-step plan whose first invocation failed and whose second
\* was still made and succeeded.
C1_Witness ==
    /\ mode = "stream" /\ pc = "done" /\ count.plan = 1
    /\ WellFormed(plan.steps) /\ Len(InvokeSteps(plan.steps)) = 2
    /\ Len(calls) = 2 /\ Failed(calls[1].ret) /\ calls[2].ret = PAYLOAD
    /\ ~HasEvent("error")

(* C2: the event sequence of a streaming run holds exactly one terminal    *)
(* event, complete or error, and it is the last event.                     *)
C2_OneTerminalEvent ==
    mode = "stream" =>
      /\ \A i \in 1..Len(events) :
           events[i].event \in {"complete", "error"} => i = Len(events)
      /\ pc = "done" => events[Len(events)].event \in {"complete", "error"}

(* C3: in streaming mode there is exactly one invoking_tool event per      *)
(* invoke_tool step of the plan, each followed at once by one tool_result  *)
(* or tool_error for the same tool, in plan order, and none for a step of  *)
(* another action.                                                         *)
C3_PairsMatchPlan ==
    mode = "stream" =>
      /\ \A i \in 1..Len(events) :
           /\ IsInvoking(events[i]) =>
                /\ i > 1 /\ events[i - 1].event = "executing_step"
                /\ events[i - 1].idx \in 1..Len(plan.steps)
                /\ plan.steps[events[i - 1].idx].action = INVOKE_TOOL
                /\ plan.steps[events[i - 1].idx].tool = events[i].tool
                /\ plan.steps[events[i - 1].idx].args = events[i].args
                /\ i = Len(events) => pc \in {"invoking_tool", "abandoned"}
                /\ i < Len(events) =>
                     IsToolRecord(events[i + 1]) /\ events[i + 1].tool = events[i].tool
           /\ IsToolRecord(events[i]) => i > 1 /\ IsInvoking(events[i - 1])
           /\ (events[i].event = "executing_step" /\ events[i].action = INVOKE_TOOL
               /\ i < Len(events)) => IsInvoking(events[i + 1])
           /\ events[i].event = "executing_step" =>
                \A j \in (i + 1)..Len(events) :
                  events[j].event = "executing_step" => events[i].idx < events[j].idx
      /\ HasEvent("finalizing") =>
           /\ Len(SelectSeq(events, IsInvoking)) = Len(InvokeSteps(PlanSteps(plan)))
           /\ Len(SelectSeq(events, IsToolRecord)) = Len(InvokeSteps(PlanSteps(plan)))

\* A finished stream of a plan with an invoke_tool step and a step of
\* another action, with one pair, one of whose invocations raised.
C3_Witness ==
    /\ mode = "stream" /\ pc = "done" /\ HasEvent("finalizing")
    /\ Len(plan.steps) = 2 /\ Len(InvokeSteps(plan.steps)) = 1
    /\ Len(SelectSeq(events, IsInvoking)) = 1
    /\ HasEvent("tool_error")

\* The events of the steps from step i on: for each step executing_step,
\* followed for an invoke_tool step by invoking_tool and its record.
RECURSIVE StepSlots(_, _)
StepSlots(steps, i) ==
    IF i > Len(steps) THEN << >>
    ELSE << {"executing_step"} >>
         \o (IF steps[i].action = INVOKE_TOOL
             THEN << {"invoking_tool"}, {"tool_result", "tool_error"} >>
             ELSE << >>)
         \o StepSlots(steps, i + 1)

\* The order of events of a task over plan p, with or without plan_ready.
EventOrder(p, planReady) ==
    << {"start"}, {"connecting"}, {"discovering"}, {"capabilities"}, {"planning"} >>
    \o (IF planReady THEN << {"plan_ready"} >> ELSE << >>)
    \o StepSlots(PlanSteps(p), 1)
    \o << {"finalizing"}, {"gemini_response"}, {"complete"} >>

\* The events so far follow the order, the i-th executing_step is step i's,
\* and a finished task has emitted all of them.
FollowsOrder(order) ==
    /\ Len(events) <= Len(order)
    /\ \A i \in 1..Len(events) : events[i].event \in order[i]
    /\ LET ex == SelectSeq(events, LAMBDA e : e.event = "executing_step")
       IN  \A k \in 1..Len(ex) : ex[k].idx = k
    /\ pc \in {"complete", "done"} => Len(events) = Len(order)

\* connect() succeeded and the engine has raised nothing so far.
StreamsCleanly == mode = "stream" /\ connected # "False" /\ ~HasEvent("error")

(* C4 as stated: a streaming task whose connect() succeeds and in which    *)
(* nothing raises emits start, connecting, discovering, capabilities,      *)
(* planning, plan_ready, the events of steps 1..n in order, finalizing,    *)
(* gemini_response, complete, each phase event exactly once.               *)
C4_PhaseOrderAsStated ==
    (StreamsCleanly /\ count.plan = 1 /\ plan.hasSteps)
      => FollowsOrder(EventOrder(plan, TRUE))

(* C4 amended: the same order, where plan_ready is emitted exactly once    *)
(* when the plan has at least one step and not at all when the plan has    *)
(* no steps.                                                               *)
C4_PhaseOrder ==
    StreamsCleanly => FollowsOrder(EventOrder(plan, HasPlan(plan)))

\* A finished clean stream of a two-step plan with one invoke_tool step.
C4_Witness ==
    /\ StreamsCleanly /\ pc = "done"
    /\ Len(plan.steps) = 2 /\ Len(InvokeSteps(plan.steps)) = 1
    /\ HasEvent("plan_ready") /\ HasEvent("tool_result")

(* C5: on every exit path of a task that created a client, close() has     *)
(* been called by the time the task ends and no transport stays open.      *)
C5_ClientReleased ==
    (pc \in {"done", "abandoned"} /\ created) =>
      /\ count.close >= 1
      /\ ~client.session /\ ~client.ws

(* C9: when connect() returns false the task ends in the error outcome,    *)
(* with connect() called once, neither oracle called and no tool invoked.  *)
C9_ConnectFailureIsTerminal ==
    connected = "False" =>
      /\ count.connect = 1 /\ count.plan = 0 /\ count.summarize = 0
      /\ calls = << >>
      /\ \A i \in 1..Len(wire) : wire[i].method # "tools/call"
      /\ mode = "stream" =>
           /\ pc \in {"error", "complete", "done", "abandoned"}
           /\ Names(events) \in { << "start", "connecting", "error" >>,
                                  << "start", "connecting", "error", "complete" >> }
      /\ mode = "sync" => pc = "done" /\ result.status = "error"

\* A synchronous task whose connect() failed after the handshake was sent.
C9_Witness ==
    /\ mode = "sync" /\ connected = "False" /\ pc = "done"
    /\ result.status = "error" /\ wire # << >>

(* C10: a failure of the summarize call made in FINALIZING does not fail   *)
(* the task: an explanatory error string is delivered as the summary, no   *)
(* error event is emitted and the task ends complete.                      *)
C10_SummaryFailureDegrades ==
    (mode = "stream" /\ inputs.summary # {} /\ inputs.summary # {"ok"}) =>
      /\ pc \in {"gemini_response", "complete", "done", "abandoned"}
      /\ ~HasEvent("error")
      /\ \E i \in 1..Len(events) :
           /\ events[i].event = "gemini_response"
           /\ events[i].result \in SummaryErrors
           /\ i > 1 /\ events[i - 1].event = "finalizing"
           /\ \A j \in (i + 1)..Len(events) : events[j].event = "complete"
      /\ pc = "done" => events[Len(events)].event = "complete"

\* A finished stream whose summarize call raised.
C10_Witness ==
    /\ mode = "stream" /\ pc = "done" /\ inputs.summary = {"exception"}
    /\ events[Len(events)].event = "complete"

\* The plan, the invocations and the per-step results read off a stream.
PlanOf(evs) ==
    LET ready == SelectSeq(evs, LAMBDA e : e.event = "plan_ready")
    IN  IF ready = << >> THEN << >> ELSE ready[1].steps
InvocationsOf(evs) ==
    LET inv == SelectSeq(evs, IsInvoking)
    IN  [k \in 1..Len(inv) |-> << inv[k].tool, inv[k].args >>]
ResultsOf(evs) ==
    LET rec == SelectSeq(evs, IsToolRecord)
    IN  [k \in 1..Len(rec) |-> IF rec[k].event = "tool_error" THEN EXCEPTION_ERROR
                                ELSE rec[k].result]

(* C6: on the same inputs, the plan, the ordered tool invocations and the  *)
(* ordered per-step results read off the event stream equal those of the   *)
(* synchronous execute_task (stated for the tasks that both modes end      *)
(* without error).                                                         *)
C6_ModesAgree ==
    (/\ paired /\ mode = "sync" /\ pc = "done" /\ result.status = "completed"
     /\ \A i \in 1..Len(firstEvents) : firstEvents[i].event # "error") =>
      /\ result.plan = PlanOf(firstEvents)
      /\ [k \in 1..Len(calls) |-> << calls[k].tool, calls[k].args >>]
           = InvocationsOf(firstEvents)
      /\ result.results = ResultsOf(firstEvents)

(* C7: invoke_tool on a client whose initialized flag is false fails fast  *)
(* with NotInitialized: nothing is sent on a transport, and the outcome    *)
(* is neither NoResponse nor a server-reported error.                      *)
C7_InvokeFailsFast ==
    (lastRet.op = "invoke_tool" /\ ~lastRet.wasInitialized) =>
      /\ ~lastRet.sent
      /\ lastRet.ret \notin {NO_RESPONSE, SERVER_ERROR, PAYLOAD, SCALAR, RAW_RESPONSE}

\* The oracle's reply is a list of steps each of which has an action.
WellFormedReply(o) ==
    /\ o.kind = "plan" /\ o.hasSteps
    /\ \A i \in 1..Len(o.steps) : o.steps[i].action \notin {NO_ACTION, NOT_A_DICT}

(* C8: whenever the plan-generation call fails or its output is not a     *)
(* well-formed list of steps, the plan is the fallback plan (the first     *)
(* cataloged tool with empty args, or analyze + complete for an empty      *)
(* catalog) and the task does not end in error.                            *)
C8_PlanningFallsBack ==
    \A o \in inputs.oracle :
      (count.plan = 1 /\ ~WellFormedReply(o)) =>
        /\ plan = FallbackPlan(client.tools)
        /\ ~HasEvent("error")
        /\ result.status # "error"

(* C11: within one task, in both modes, the invocations of a plan are      *)
(* issued in plan order and never overlap: a tools/call goes out only      *)
(* after every earlier invocation has returned, so at most one request is  *)
(* in flight on the task's client.                                         *)
IsToolsCall(m) == m.method = "tools/call"
NamesTool(st) == IsInvoke(st) /\ st.tool # NoTool

\* The steps of the plan for which the mode calls invoke_tool.
CalledSteps ==
    IF mode = "stream" THEN InvokeSteps(PlanSteps(plan)) ELSE SelectSeq(PlanSteps(plan), NamesTool)

C11_OneAtATime ==
    mode \in {"sync", "stream"} =>
      LET planned == SelectSeq(calls, IsPlanCall)
          sends == SelectSeq(wire, IsToolsCall)
      IN  /\ inflight <= 1
          /\ inflight = 1 => awaiting
          /\ Len(sends) <= Len(calls) + inflight
          /\ Len(planned) <= Len(CalledSteps)
          /\ \A k \in 1..Len(planned) :
                /\ planned[k].tool = CalledSteps[k].tool
                /\ planned[k].args = CalledSteps[k].args
          /\ (awaiting /\ count.plan = 1) =>
                /\ Len(planned) < Len(CalledSteps)
                /\ inflight = 1 => sends[Len(sends)].tool = CalledSteps[Len(planned) + 1].tool

\* The second invocation of a two-step plan is in flight; the first returned.
C11_Witness ==
    /\ mode = "stream" /\ awaiting /\ inflight = 1
    /\ Len(calls) = 1 /\ Len(SelectSeq(wire, IsToolsCall)) = 2
    /\ CalledSteps[1].tool # CalledSteps[2].tool

(* C12: in both modes every invoke_tool call the engine makes is the call  *)
(* of one invoke_tool step of the plan the task reports (the plan_ready    *)
(* event, the plan field of the result), with that step's tool and args;   *)
(* no call is made that is not such a step.                                *)
IsPlanReady(e) == e.event = "plan_ready"

\* The plan the task reports.
ReportedPlan ==
    IF mode = "stream"
    THEN LET ready == SelectSeq(events, IsPlanReady)
         IN  IF ready = << >> THEN << >> ELSE ready[1].steps
    ELSE result.plan

\* calls are, in order, calls of invoke_tool steps of steps
CallsFollow(steps) ==
    LET invoked == IF mode = "stream" THEN InvokeSteps(steps) ELSE SelectSeq(steps, NamesTool)
    IN  /\ Len(calls) <= Len(invoked)
        /\ \A k \in 1..Len(calls) :
              calls[k].tool = invoked[k].tool /\ calls[k].args = invoked[k].args

C12_CallsArePlanSteps ==
    /\ mode = "stream" => CallsFollow(ReportedPlan)
    /\ (mode = "sync" /\ pc = "done" /\ result.status = "completed") =>
         CallsFollow(ReportedPlan)

(* C13: for an http(s) base URL, detect_protocol returns the first         *)
(* candidate URL, in ENDPOINT_PATTERNS order, at which a probe succeeds,   *)
(* the JSON-RPC methods being tried in TEST_METHODS order before the       *)
(* event-stream GET; HTTP_JSONRPC if a JSON-RPC probe succeeded there,     *)
(* SSE otherwise; and no probe is sent after the first success.            *)
ProbesPerPath == Len(TEST_METHODS) + 1

\* The n-th probe of the fixed order.
NthProbe(n) ==
    LET pattern == ENDPOINT_PATTERNS[((n - 1) \div ProbesPerPath) + 1]
        m == ((n - 1) % ProbesPerPath) + 1
    IN  Probe(pattern, IF m <= Len(TEST_METHODS) THEN TEST_METHODS[m] ELSE "GET")

ProbeSucceeds(n) ==
    LET q == NthProbe(n)
    IN  IF q.method = "GET" THEN behaviour[q.path].sse ELSE q.method \in behaviour[q.path].json

AllProbes == 1..(Len(ENDPOINT_PATTERNS) * ProbesPerPath)

Detected == mode = "detect" /\ pc = "done"

C13_FirstSuccessWins ==
    (Detected /\ url.scheme \in {"http", "https"}) =>
      /\ \A n \in AllProbes :
           (ProbeSucceeds(n) /\ \A i \in 1..(n - 1) : ~ProbeSucceeds(i)) =>
             /\ detection.probes = [i \in 1..n |-> NthProbe(i)]
             /\ detection.endpoint = AppendPath(Rstrip(url), NthProbe(n).path)
             /\ detection.protocol =
                  (IF NthProbe(n).method = "GET" THEN SSE ELSE HTTP_JSONRPC)
      /\ (\A q \in Range(ENDPOINT_PATTERNS) :
            behaviour[q].json = (IF q = "/mcp" THEN Range(TEST_METHODS) ELSE {})
            /\ ~behaviour[q].sse) =>
           /\ detection.protocol = HTTP_JSONRPC
           /\ detection.endpoint = AppendPath(Rstrip(url), "/mcp")
      /\ (\A q \in Range(ENDPOINT_PATTERNS) :
            behaviour[q].json = {} /\ (behaviour[q].sse <=> q = "/sse")) =>
           /\ detection.protocol = SSE
           /\ detection.endpoint = AppendPath(Rstrip(url), "/sse")

(* A path that answers only tools/list and also streams is found as        *)
(* JSON-RPC, after every probe of the candidates before it failed.         *)
C13_Witness ==
    /\ Detected /\ url.scheme = "https"
    /\ detection.protocol = HTTP_JSONRPC
    /\ behaviour[detection.probes[Len(detection.probes)].path].sse
    /\ detection.probes[Len(detection.probes)].method = "tools/list"
    /\ Len(detection.probes) > 2 * ProbesPerPath

(* C14: for a stdio:// base URL detect_protocol returns (STDIO, base URL)  *)
(* and for a ws:// or wss:// base URL (WEBSOCKET, base URL); the URL is    *)
(* returned unchanged and no probe is sent.                                *)
C14_SchemeShortCircuit ==
    Detected =>
      /\ url.scheme = "stdio" =>
           detection = [protocol |-> STDIO, endpoint |-> url, probes |-> << >>]
      /\ url.scheme \in {"ws", "wss"} =>
           detection = [protocol |-> WEBSOCKET, endpoint |-> url, probes |-> << >>]

\* A wss URL ending in "/" on a server that would answer the first probe.
C14_Witness ==
    /\ Detected /\ url.scheme = "wss" /\ url.path = "/"
    /\ "initialize" \in behaviour["/mcp"].json
    /\ detection.protocol = WEBSOCKET /\ detection.endpoint.path = "/"

(* C15: every detect_protocol call ends after a bounded number of probes,  *)
(* whatever each probe does, and returns (UNKNOWN, base URL), the URL      *)
(* unchanged, exactly when no probe succeeded; for a scheme that is        *)
(* neither stdio, ws(s) nor http(s) no probe is sent.                      *)
ShortCircuits == url.scheme \in {"stdio", "ws", "wss"}

\* A probe that was sent succeeded.
SentProbeSucceeded ==
    \E i \in 1..Len(detection.probes) :
      LET q == detection.probes[i]
      IN  IF q.method = "GET" THEN behaviour[q.path].sse ELSE q.method \in behaviour[q.path].json

UnknownIffNoSuccess ==
    /\ ~ShortCircuits =>
         /\ detection.protocol = UNKNOWN <=> ~SentProbeSucceeded
         /\ detection.protocol = UNKNOWN => detection.endpoint = url
    /\ url.scheme \notin {"http", "https"} => detection.probes = << >>

\* As stated: at most |ENDPOINT_PATTERNS| x |TEST_METHODS| probes.
C15_AtMostPatternsTimesMethods ==
    Detected =>
      /\ Len(detection.probes) <= Len(ENDPOINT_PATTERNS) * Len(TEST_METHODS)
      /\ UnknownIffNoSuccess

\* Amended: the event-stream GET of each candidate counts too.
C15_BoundedDetection ==
    Detected =>
      /\ Len(detection.probes) <= Len(ENDPOINT_PATTERNS) * (Len(TEST_METHODS) + 1)
      /\ UnknownIffNoSuccess

\* Every probe of every candidate timed out, for a base URL ending in "/".
C15_Witness ==
    /\ Detected /\ url = Url("http", "srv", "/")
    /\ \A q \in Range(ENDPOINT_PATTERNS) : behaviour[q].fail = "timeout"
    /\ Len(detection.probes) = Len(ENDPOINT_PATTERNS) * (Len(TEST_METHODS) + 1)
    /\ detection.protocol = UNKNOWN /\ detection.endpoint = url

(* C16: whenever connect() returns true, the call has run detection,       *)
(* opened the transport of the selected protocol and executed the          *)
(* initialize() handshake; on return initialized is true and protocol is   *)
(* not UNKNOWN.                                                            *)
TransportOpen(c) ==
    CASE c.protocol \in {HTTP_JSONRPC, SSE} -> c.session
      [] c.protocol = WEBSOCKET -> c.ws
      [] OTHER -> FALSE

C16_ConnectedMeansInitialized ==
    (mode = "client" /\ lastRet.op = "connect" /\ lastRet.ret = "True") =>
      /\ client.protocol # UNKNOWN
      /\ client.initialized
      /\ TransportOpen(client)
      /\ lastRet.sent

(* C17: over any sequence of operations on one client, once initialized    *)
(* has become true it never reverts to false except through a new          *)
(* connect().                                                              *)
C17_OnlyConnectReverts ==
    [][(mode = "client" /\ client.initialized /\ lastRet'.op # "connect")
         => client'.initialized]_vars

(* Amended: once true, initialized stays true until close(); connect() and *)
(* initialize() never clear it, not even when they fail.                   *)
C17_OnlyCloseReverts ==
    [][(mode = "client" /\ client.initialized /\ lastRet'.op # "close")
         => client'.initialized]_vars

\* A connect() or initialize() on an initialized client failed.
C17_Witness ==
    /\ mode = "client" /\ lastRet.wasInitialized
    /\ lastRet.op \in {"connect", "initialize"} /\ lastRet.ret = "False" /\ lastRet.sent
    /\ client.initialized

(* C18: when the initialize handshake yields no result (no response, or a  *)
(* response without "result"): on SSE the client is marked initialized,    *)
(* tools/list is attempted and connect() returns true; on every other      *)
(* protocol initialized stays false, no listing is attempted and connect() *)
(* returns false.                                                          *)
Methods(requests) == [i \in 1..Len(requests) |-> requests[i].method]

HandshakeFailed ==
    /\ mode = "client" /\ lastRet.op \in {"connect", "initialize"}
    /\ lastRet.reply \in {"none", "error"}

C19_InvokeClassifiesResponse ==
    (mode = "client" /\ lastRet.op = "invoke_tool") =>
      CASE lastRet.reply = "result" -> lastRet.ret \in {PAYLOAD, SCALAR}
        [] lastRet.reply = "error" -> lastRet.ret = SERVER_ERROR
        [] OTHER -> lastRet.ret = NO_RESPONSE

(* C20: whenever a tools/list or discovery response carries a non-empty    *)
(* tool list, the catalog recorded for the server is exactly that list:    *)
(* the static Context7 catalog replaces the catalog only when the          *)
(* discovered one is empty.                                                *)
C20_NonEmptyListIsCatalog ==
    (mode = "discover" /\ pc = "done" /\ discovery.carried # << >>) =>
      discovery.tools = discovery.carried

(* C21: for a client whose base URL has scheme stdio, every request handed *)
(* to the transport fails: no call (initialize, tools/list,                *)
(* resources/list, tools/call) yields a success payload, every invoke_tool *)
(* returns an error result, and neither connect() nor any call opens a     *)
(* transport or puts a request on one.                                     *)
C21_StdioEveryCallFails ==
    (mode = "client" /\ url.scheme = "stdio") =>
      /\ wire = << >> /\ ~client.session /\ ~client.ws /\ ~client.process
      /\ lastRet.reply \in {"none", UNSENT}
      /\ lastRet.op = "invoke_tool" => HasErrorKey(lastRet.ret)
      /\ lastRet.op = "initialize" => lastRet.ret = "False"
      /\ ~client.initialized

\* invoke_tool after connect() selected the stdio protocol.
C21_Witness ==
    /\ mode = "client" /\ url.scheme = "stdio" /\ client.protocol = STDIO
    /\ lastRet.op = "invoke_tool" /\ lastRet.ret = NO_RESPONSE

(* C22: close() on a client in any state (never connected, after a failed  *)
(* connect, connected, already closed) leaves every transport handle       *)
(* (HTTP session, websocket, process) released and initialized false, and  *)
(* a second close() right after it changes no state.                       *)
Released(c) == ~c.session /\ ~c.ws /\ ~c.process /\ c.unclosed_ws = 0

C22_CloseReleases ==
    (mode \in {"client", "lifecycle"} /\ lastRet.op = "close") =>
      /\ Released(client)
      /\ ~client.initialized
      /\ Close(client) = client

(* C23: get_capabilities() changes no client state, and two calls with no  *)
(* connect, initialize, listing or close between them return identical     *)
(* snapshots {protocol, endpoint, initialized, server_info, tools,         *)
(* resources}.                                                             *)
C23_SnapshotStable ==
    [][(mode \in {"client", "lifecycle"} /\ lastRet'.op = "get_capabilities") =>
         /\ client' = client
         /\ DOMAIN snapshot'.caps =
              {"protocol", "endpoint", "initialized", "server_info", "tools", "resources"}
         /\ snapshot.calls > 0 => snapshot'.caps = snapshot.caps]_vars

\* Two snapshots of a connected client that has a catalog.
C23_Witness ==
    /\ mode = "lifecycle" /\ lastRet.op = "get_capabilities" /\ snapshot.calls = 2
    /\ client.initialized /\ snapshot.caps.tools # << >>

(* C24: on a step of a background deploy_server_task, whatever requests    *)
(* and other tasks ran before it, a server id whose status, as get_server  *)
(* shows it, is already deployed or failed keeps that status: the status   *)
(* of an id moves from discovered to deployed or to failed and is then     *)
(* final, for the attempt itself and for a concurrent attempt for the id.  *)
StatusOf(s, id) ==
    IF GetServer(s, id) = NoRef THEN "None" ELSE s.records[GetServer(s, id)].status

IsDeployTaskStep == mode = "store" /\ received' = received /\ api' = api /\ jobs' # jobs

C24_StatusFinal ==
    [][IsDeployTaskStep =>
         \A id \in ServerIds :
             StatusOf(store, id) \in {"deployed", "failed"} =>
                 StatusOf(store', id) = StatusOf(store, id)]_vars

(* C25: once deploy_server has answered with a record of status            *)
(* discovered and its deploy_server_task is scheduled, then, every         *)
(* deployer call returning or raising, get_server comes to show the id     *)
(* deployed (endpoint set, id in the registry) or failed (error recorded), *)
(* unless the server is deleted, whatever other requests are served.       *)
Settled(s, id) ==
    /\ GetServer(s, id) # NoRef
    /\ \/ /\ s.records[GetServer(s, id)].status = "deployed"
          /\ s.records[GetServer(s, id)].endpoint # "None"
          /\ IsServerRegistered(s, id)
       \/ /\ s.records[GetServer(s, id)].status = "failed"
          /\ s.records[GetServer(s, id)].error # "None"

DeployAnswered(id) ==
    /\ mode = "store"
    /\ api.op = "deploy_server" /\ api.id = id /\ api.ref # NoRef
    /\ store.records[api.ref].status = "discovered"
    /\ \E j \in 1..Len(jobs) : jobs[j].kind = "deploy" /\ jobs[j].ref = api.ref

C25_DeployEventuallySettles ==
    \A id \in Repos : DeployAnswered(id) ~> (Settled(store, id) \/ id \in deleted)

(* C26: orchestrate_task, orchestrate_task_stream and invoke_tool create a *)
(* client and run a task only when, as the request is served, the id is    *)
(* in the store and is_server_deployed(id) holds; an unknown id is         *)
(* answered 404 and a known id that is not deployed 400, with no client    *)
(* created, no event sent and the store left as it was.                    *)
GuardedOps == {"orchestrate_task", "orchestrate_task_stream", "invoke_tool"}

Refused(code) ==
    /\ api'.code = code
    /\ ~api'.client /\ ~api'.events
    /\ store' = store /\ jobs' = jobs

C26_GuardedEndpoints ==
    [][(mode = "store" /\ api'.n # api.n /\ api'.op \in GuardedOps) =>
         /\ api'.client =>
               GetServer(store, api'.id) # NoRef /\ IsServerDeployed(store, api'.id)
         /\ api'.events => api'.client
         /\ GetServer(store, api'.id) = NoRef => Refused(404)
         /\ (GetServer(store, api'.id) # NoRef /\ ~IsServerDeployed(store, api'.id)) =>
               Refused(400)]_vars

C26_Witness ==
    /\ mode = "store"
    /\ api.op = "orchestrate_task_stream" /\ api.code = 400
    /\ GetServer(store, api.id) # NoRef /\ ~IsServerDeployed(store, api.id)

(* C27: register_server, whether or not a server answers at the endpoint,  *)
(* answers with the server in the registry, status deployed, deploy        *)
(* method external and a capabilities mapping set; a request for an        *)
(* endpoint that is registered is answered with the registered record,     *)
(* the store unchanged and no capability discovery started.                *)
DiscoveryStartedFor(id) ==
    /\ Len(jobs') = Len(jobs) + 1
    /\ jobs'[Len(jobs')].kind = "register" /\ jobs'[Len(jobs')].id = id

RegisterAnswered == mode = "store" /\ api'.n # api.n /\ api'.op = "register_server"

C27_RegisterIdempotent ==
    [][/\ \A id \in ServerIds :
            (mode = "store" /\ DiscoveryStartedFor(id)) => ~IsServerRegistered(store, id)
       /\ RegisterAnswered =>
            /\ api'.code = 200
            /\ IsServerRegistered(store', api'.id)
            /\ store'.server_registry[api'.id] = api'.ref
            /\ store'.records[api'.ref].status = "deployed"
            /\ store'.records[api'.ref].deploy_method = "external"
            /\ store'.records[api'.ref].capabilities \in DiscoveredCapabilities
            /\ (received' # received /\ IsServerRegistered(store, api'.id)) =>
                  /\ api'.ref = store.server_registry[api'.id]
                  /\ store' = store
                  /\ jobs' = jobs]_vars

C27_Witness ==
    /\ mode = "store"
    /\ api.op = "register_server" /\ api.n = 2 /\ received = 2
    /\ Len(store.records) = 1 /\ jobs = << >>
    /\ store.records[api.ref].capabilities = "no_tools"
    /\ store.server_registry[api.id] = 1

(* C28: whatever discover, register, deploy, status update, clear_cache    *)
(* and remove operations came before, list_all_servers returns, for each   *)
(* id in the registry or the cache, the one record get_server(id)          *)
(* returns, and so filter_servers(status, method) returns the records of   *)
(* exactly the ids whose get_server record has that status and method.     *)
Present(s) == { id \in ServerIds : GetServer(s, id) # NoRef }

MatchesFilter(s, id, f) ==
    /\ f.status # "None" => s.records[GetServer(s, id)].status = f.status
    /\ f.method # "None" => s.records[GetServer(s, id)].deploy_method = f.method

C28_ListAgreesWithGetServer ==
    mode = "store" =>
      /\ ListAllServers(store) = { GetServer(store, id) : id \in Present(store) }
      /\ \A f \in ListFilters :
            { store.records[ref].id : ref \in FilterServers(store, f.status, f.method) }
              = { id \in Present(store) : MatchesFilter(store, id, f) }

(* C29: in execute_task every invoke_tool call is made on a client that    *)
(* is connected when the call is made: close() has not been called on it   *)
(* and it holds an open session or websocket.                              *)
InvokesTool == Len(calls') > Len(calls)

C29_InvokeOnConnectedClient ==
    [][(mode = "sync" /\ InvokesTool) =>
         /\ count.close = 0
         /\ client.session \/ client.ws]_vars

(* C30: a call of the SSE transport on an open session first makes a JSON  *)
(* POST to the endpoint derived from the SSE endpoint, same host, with the *)
(* streaming suffix "/sse" replaced by "/mcp"; the streaming POST is made  *)
(* only if that attempt fails, and a JSON attempt answered 200 with a JSON *)
(* body gives the call's response with no streaming request made.          *)
EndsWithSse(text) == text # << >> /\ text[Len(text)] = "/sse"

SwapSuffix(text) == IF EndsWithSse(text) THEN [text EXCEPT ![Len(text)] = "/mcp"] ELSE text

Streams(call) == \E i \in DOMAIN call.posts : call.posts[i].accept = "text/event-stream"

C30_JsonAttemptFirst ==
    (mode = "sse" /\ sseCall.called /\ sseCall.session) =>
      /\ sseCall.posts # << >>
      /\ sseCall.posts[1].accept = "json"
      /\ HostOf(sseCall.posts[1].url) = HostOf(sseCall.endpoint)
      /\ EndsWithSse(sseCall.endpoint) =>
            PathOf(sseCall.posts[1].url) = SwapSuffix(PathOf(sseCall.endpoint))
      /\ Streams(sseCall) => sseCall.json # "200_json"
      /\ sseCall.json = "200_json" =>
            sseCall.response.kind = "body" /\ Len(sseCall.posts) = 1

(* C31: in the streaming fallback, whatever lines arrive, the first data   *)
(* frame that carries a result (or has type "result") ends the call and is *)
(* what the call returns, no later line being read; when "event: done" or  *)
(* the end of the stream comes first, the call returns what the data       *)
(* frames read so far carried, in order: as the claim has it, the          *)
(* undecodable text frames only; as the code has it, every data frame,     *)
(* decoded or not, and None when there was none.                           *)
StreamRead ==
    /\ mode = "sse" /\ sseCall.called /\ sseCall.session
    /\ sseCall.json # "200_json" /\ ~sseCall.stream.raises

IsResultFrame(line) == line \in {"data_result", "data_typed"}

\* The index of the line that ends the loop, Len + 1 at the end of the stream.
RECURSIVE EndOfRead(_, _)
EndOfRead(lines, i) ==
    IF i > Len(lines) \/ IsResultFrame(lines[i]) \/ lines[i] = "event_done"
    THEN i
    ELSE EndOfRead(lines, i + 1)

ReadSoFar(lines) == SubSeq(lines, 1, EndOfRead(lines, 1) - 1)
IsTextFrame(line) == line = "data_text"
IsDataFrame(line) == line \in {"data_json", "data_text"}

EndsWithResult(lines) ==
    EndOfRead(lines, 1) <= Len(lines) /\ IsResultFrame(lines[EndOfRead(lines, 1)])

FirstResultReturned ==
    EndsWithResult(sseCall.stream.lines) =>
      /\ sseCall.response.data = << sseCall.stream.lines[EndOfRead(sseCall.stream.lines, 1)] >>
      /\ sseCall.response.kind \in {"line", "content"}
      /\ sseCall.read = EndOfRead(sseCall.stream.lines, 1)

\* The claim as stated.
C31_ReturnsTextFrames ==
    StreamRead =>
      /\ FirstResultReturned
      /\ ~EndsWithResult(sseCall.stream.lines) =>
            sseCall.response.data = SelectSeq(ReadSoFar(sseCall.stream.lines), IsTextFrame)

\* The claim as the code has it.
C31_ReturnsDataFrames ==
    StreamRead =>
      /\ FirstResultReturned
      /\ ~EndsWithResult(sseCall.stream.lines) =>
            /\ sseCall.response.data = SelectSeq(ReadSoFar(sseCall.stream.lines), IsDataFrame)
            /\ sseCall.response.kind = IF sseCall.response.data = << >> THEN "None"
                                       ELSE "collected"
            /\ sseCall.read <= EndOfRead(sseCall.stream.lines, 1)

C31_Witness ==
    /\ StreamRead
    /\ sseCall.stream.lines = << "data_json", "event_done" >>
    /\ sseCall.response = [kind |-> "collected", data |-> << "data_json" >>]

(* C32: when the stream calls summarize in FINALIZING, what it passes      *)
(* holds, with the plan, the result of every invoke_tool step that was     *)
(* executed: each value an invocation returned is among the values the     *)
(* arguments carry.                                                        *)
ValuesIn(arguments) ==
    {arguments.prompt, arguments.context}
    \cup UNION { {arguments.plan.steps[i].action, arguments.plan.steps[i].tool,
                  arguments.plan.steps[i].args} : i \in DOMAIN arguments.plan.steps }

C32_SummaryGetsResults ==
    (mode = "stream" /\ summarized.called) =>
      /\ summarized.plan = plan
      /\ \A i \in DOMAIN calls : calls[i].ret \in ValuesIn(summarized)

(* C33: once connect() has set protocol and endpoint, no operation on the  *)
(* client other than connect() (initialize, the listings, invoke_tool,     *)
(* get_capabilities, close) changes either of them.                        *)
OtherThanConnect ==
    {"initialize", "_list_tools", "_list_resources", "invoke_tool", "get_capabilities", "close"}

C33_EndpointFixed ==
    [][(mode \in {"client", "lifecycle"} /\ ops' = ops + 1 /\ lastRet'.op \in OtherThanConnect) =>
         /\ client'.protocol = client.protocol
         /\ client'.endpoint = client.endpoint
         /\ client'.base_url = client.base_url]_vars

C33_Witness ==
    /\ mode = "client" /\ ops = 2
    /\ lastRet.op = "close"
    /\ client.protocol = SSE /\ client.endpoint.path = "/sse"

(* C34: whatever connect() calls came before, after a connect() that       *)
(* returns false the client shows no session state: initialized is false   *)
(* and get_capabilities() reports no tools, no resources and no            *)
(* server_info, none being left from an earlier connect() that succeeded.  *)
C34_FailedConnectClearsState ==
    (mode \in {"client", "lifecycle"} /\ lastRet.op = "connect" /\ lastRet.ret = "False") =>
      /\ ~GetCapabilities(client).initialized
      /\ GetCapabilities(client).tools = << >>
      /\ GetCapabilities(client).resources = << >>
      /\ GetCapabilities(client).server_info = EmptyInfo

(* C35: invoke_tool never raises to its caller: in every client state,     *)
(* whatever the transport does with the request (an exception, a status    *)
(* other than 200, an undecodable body, a closed session), it returns a    *)
(* value, and every failure comes back as a mapping with an error key.     *)
InvokeReturns == {PAYLOAD, SCALAR, SERVER_ERROR, NO_RESPONSE, RAW_RESPONSE, EXCEPTION_ERROR}

Failures == {UNSENT, "exception", "non200", "undecodable", "none", "error", "not_a_mapping"}

C35_InvokeNeverRaises ==
    (mode = "lifecycle" /\ lastRet.op = "invoke_tool") =>
      /\ lastRet.ret \in InvokeReturns
      /\ lastRet.reply \in Failures => HasErrorKey(lastRet.ret)

C35_Witness ==
    /\ mode = "lifecycle" /\ lastRet.op = "invoke_tool"
    /\ client.session /\ lastRet.sent
    /\ lastRet.reply = "not_a_mapping" /\ lastRet.ret = EXCEPTION_ERROR

(* C36: without GEMINI_API_KEY, execute_task returns status error and      *)
(* execute_task_stream yields one error event and stops; in both no        *)
(* UniversalMCPClient is created, connect() is not called and no tool is   *)
(* invoked.                                                                *)
IsEngineEvent(e) == e.event \notin {"start", "complete"}

C36_NoKeyNoClient ==
    (mode \in {"sync", "stream"} /\ ~apiKey) =>
      /\ ~created /\ connected = "none" /\ count.connect = 0
      /\ calls = << >> /\ wire = << >>
      /\ (mode = "sync" /\ pc = "done") => result.status = "error"
      /\ (mode = "stream" /\ pc \in {"error", "complete", "done"}) =>
            /\ Len(SelectSeq(events, IsEngineEvent)) = 1
            /\ SelectSeq(events, IsEngineEvent)[1].event = "error"
      /\ mode = "stream" =>
            /\ Len(SelectSeq(events, IsEngineEvent)) <= 1
            /\ \A i \in DOMAIN events : events[i].event \in {"start", "error", "complete"}

C36_Witness ==
    /\ mode = "stream" /\ ~apiKey /\ pc = "done"
    /\ Len(events) = 3 /\ events[2].event = "error"

(* C37: every server for which is_server_deployed(id) is true has an      *)
(* endpoint that is not None, so that orchestrate and invoke never build a *)
(* client from a None endpoint.                                            *)
C37_DeployedHasEndpoint ==
    mode = "store" =>
      \A id \in ServerIds :
          IsServerDeployed(store, id) =>
              store.records[store.server_registry[id]].endpoint # "None"

(* C38: once remove_server(id) has completed, a step of a deploy_server_task *)
(* that finds the id in neither the registry nor the cache leaves it in      *)
(* neither: its update_server_status call changes nothing, and the id comes  *)
(* back only through a discover, deploy or register request.                 *)
Removed(s, id) == id \in deleted /\ GetServer(s, id) = NoRef

C38_RemovedStaysRemoved ==
    [][DeployTaskStep =>
         \A id \in ServerIds :
             Removed(store, id) =>
                 /\ store'.server_registry[id] = NoRef
                 /\ store'.discovery_cache[id] = NoRef
                 /\ \A r \in { x \in DOMAIN store.records : store.records[x].id = id } :
                        /\ store'.records[r].status = store.records[r].status
                        /\ store'.records[r].endpoint = store.records[r].endpoint
                        /\ store'.records[r].capabilities = store.records[r].capabilities]_vars

C38_Witness ==
    /\ mode = "store"
    /\ \E j \in 1..Len(jobs) :
         /\ IsDeployTask(jobs[j]) /\ jobs[j].pc = "discovering"
         /\ Removed(store, jobs[j].id)
         /\ store.records[jobs[j].ref].status = "discovered"
         /\ store.records[jobs[j].ref].endpoint = "None"
====
